---- MODULE Spec2Model ----
(***************************************************************************)
(* A model of the input abstraction of Artimancer (InputManager.ts):       *)
(* Status / Button / Directional, the Input Manager that merges keyboard   *)
(* and gamepad input once per game step, and its control-set save/restore. *)
(*                                                                         *)
(* Buttons and Directionals are objects: they live in the heaps bobj and   *)
(* dobj under an identity, and the two name-keyed Maps of the Input        *)
(* Manager hold identities, so that aliasing (save/restore) is visible.    *)
(* The four sub-buttons of a Directional are owned by it alone and are     *)
(* held inside its record.  A Vector is a pair of fixed-point numbers in   *)
(* thousandths (Scale = 1.0).                                              *)
(***************************************************************************)
EXTENDS Integers, Sequences, FiniteSets, TLC

VARIABLES
  buttons,        \* InputManager.buttons: name -> Button identity
  directionals,   \* InputManager.directionals: name -> Directional identity
  bobj,           \* the Button objects: identity -> Button
  dobj,           \* the Directional objects: identity -> Directional
  usingKeyboard,  \* InputManager.usingKeyboard
  savedControls,  \* InputManager.savedControls (defined = FALSE: undefined)
  mouseFunctions, \* InputManager.mouseFunctions
  gamepads,       \* the environment: what navigator.getGamepads() returns
  \* ---- history variables (observations, no part of the program) ----
  lastOp,         \* the operation that ran last
  lastKey,        \* the key of the last keyboard event
  fired,          \* <<name, "onPressed"|"onReleased">> invoked by the last IM.step
  dfired,         \* name -> label passed to fn by the last IM.step (or NoLabel)
  stepCalls,      \* name -> number of Button.step calls in the last IM.step
  vecSet,         \* names of the directionals whose vec the last poll assigned
  pollAuth,       \* the last poll ran an assignment phase (usingKeyboard false)
  polledRead,     \* per gamepad: what the last poll read for the tracked button
  edgeSeen,       \* gamepad edges of the tracked button between the last two polls
  prevDown,       \* Button identity -> its isDown at the end of the last
                  \* IM.step that had it registered
  hold,           \* Directional identity -> consecutive Directional.step
                  \* calls that saw a non-zero vec, up to now
  seenIdle,       \* Directional identity -> some Directional.step has seen
                  \* its vec at magnitude 0
  trk,            \* the press/hold/release scenario of the tracked button
  snap,           \* the two Maps as they were at the most recent save()
  ret,            \* what the last operation returned
  call,           \* the name and the handler the last operation was called
                  \* with, where it is one that looks a control up by name
  \* ---- the browser's listener lists ----
  listeners,      \* on: event type -> the listener functions attached for it;
                  \* binds: how many functions Function.bind has made so far
  boot,           \* history: startUps, the number of startUp() calls;
                  \* invoked, how many listeners the last device event ran
  noContextMenu,  \* InputManager.noContextMenu
  \* ---- the Game Manager ----
  game,           \* gameOver, stepCount and adjustTime of the GameManager and
                  \* armed, the number of timeouts of its loop that the
                  \* browser holds and has not yet run
  \* ---- the room editor (WorldRoomEditor) and what it works on ----
  editor,         \* the editor's fields, the Polygon objects it holds
                  \* (polygons: identity -> points) and the camera offset
  room,           \* currentRoom: its entity and background lists and the
                  \* boxes of those objects (boxes: identity -> Box) and,
                  \* of each entity, its label and altitude (about)
  cornerUI,       \* the UI Manager's corner slots: corner -> overlay
  elog            \* history: the left clicks made on the polygon in progress

progVars == <<buttons, directionals, bobj, dobj, usingKeyboard, savedControls,
              mouseFunctions, gamepads>>
histVars == <<lastOp, lastKey, fired, dfired, stepCalls, vecSet, pollAuth,
              polledRead, edgeSeen, prevDown, hold, seenIdle, trk, snap,
              ret, call>>
domVars == <<listeners, boot, game, noContextMenu>>
editVars == <<editor, room, cornerUI, elog>>
vars == <<progVars, histVars, domVars, editVars>>

---------------------------------------------------------------------------
(* Bounds of the exploration *)

\* calls of GM.run() explored
MaxRuns == 4
\* calls of startUp() explored
MaxStartUps == 3
\* left clicks in drawBarrier mode explored where polygons are drawn, and
\* where they are selected and deleted
MaxClicks == 4
MaxEditClicks == 1
\* mouse moves that pan the camera or move a selection explored
MaxMoves == 1
\* consecutive steps of non-zero intent explored for a held directional
MaxHold == 32
\* the same, where the repeat timing is not what is looked at
MaxHoldPoll == 3
\* the tracked scenario counts steps and callback invocations up to this
MaxTrack == 2

(* Program constants *)

\* Directional.keyDelay
KeyDelay == 20
\* Directional.keyRate
KeyRate == 5
\* InputManager.deadZone = 0.2, in thousandths
DeadZone == 200
\* InputManager.stickSensitivity = 1.4, in tenths
StickSensitivity == 14
\* the fixed-point unit of a Vector component: Scale stands for 1.0
Scale == 1000
\* an optional index (gpButtonIndex, hAxisIndex, vAxisIndex) that is undefined
NoIndex == -1

NoOp == "noOp"
\* the last operation took no name
NoCall == [name |-> "", handler |-> ""]
NoLabel == "none"
EmptyMap == [n \in {} |-> 0]

\* the button whose scenario trk, polledRead and edgeSeen follow
TrackName == "act"

---------------------------------------------------------------------------
(* Maps *)

MapSet(m, k, v) == [x \in DOMAIN m \cup {k} |-> IF x = k THEN v ELSE m[x]]
MapDelete(m, k) == [x \in DOMAIN m \ {k} |-> m[x]]
Range(m) == {m[x] : x \in DOMAIN m}

---------------------------------------------------------------------------
(* Vector (fixed point) *)

Abs(x) == IF x < 0 THEN -x ELSE x
Sgn(x) == IF x < 0 THEN -1 ELSE IF x > 0 THEN 1 ELSE 0

RECURSIVE SqrtBisect(_, _, _)
SqrtBisect(n, lo, hi) ==
  IF lo >= hi THEN lo
  ELSE LET mid == (lo + hi + 1) \div 2
       IN IF mid * mid <= n THEN SqrtBisect(n, mid, hi)
          ELSE SqrtBisect(n, lo, mid - 1)

\* floor of the square root, for 0 <= n <= (2*Scale)^2
ISqrt(n) == SqrtBisect(n, 0, 2 * Scale)

ZeroVec == <<0, 0>>

\* Vector.getMagnitude() === 0
MagnitudeIsZero(v) == v[1] = 0 /\ v[2] = 0

\* Vector.getMagnitude() > 1
MagnitudeExceedsOne(v) == v[1] * v[1] + v[2] * v[2] > Scale * Scale

\* Vector.getMagnitude(), rounded down to a thousandth
Magnitude(v) == ISqrt(v[1] * v[1] + v[2] * v[2])

\* Vector.normalize(): the zero vector stays the zero vector
Normalize(v) ==
  IF MagnitudeIsZero(v) THEN ZeroVec
  ELSE LET m == Magnitude(v)
       IN <<Sgn(v[1]) * ((Abs(v[1]) * Scale) \div m),
            Sgn(v[2]) * ((Abs(v[2]) * Scale) \div m)>>

\* Vector.multiply(s), s given in tenths
Multiply(v, tenths) ==
  <<Sgn(v[1]) * ((Abs(v[1]) * tenths) \div 10),
    Sgn(v[2]) * ((Abs(v[2]) * tenths) \div 10)>>

---------------------------------------------------------------------------
(* Status and Button *)

NewStatus ==
  [isDown |-> FALSE, wasDown |-> FALSE, isPressed |-> FALSE,
   isHeld |-> FALSE, isReleased |-> FALSE]

NewButton(key, gpButtonIndex) ==
  [key |-> key, gpButtonIndex |-> gpButtonIndex, status |-> NewStatus,
   onPressed |-> NoOp, onReleased |-> NoOp]

\* a faulty down(): every keydown counts as a fresh press
ButtonDownAlwaysPressed(b) ==
  [b EXCEPT !.status =
     [isDown |-> TRUE, wasDown |-> b.status.wasDown,
      isHeld |-> b.status.wasDown, isPressed |-> TRUE,
      isReleased |-> FALSE]]

\* Button.down()
ButtonDown(b) ==
  [b EXCEPT !.status =
     [isDown |-> TRUE, wasDown |-> b.status.wasDown,
      isHeld |-> b.status.wasDown, isPressed |-> ~b.status.wasDown,
      isReleased |-> FALSE]]

\* Button.up()
ButtonUp(b) ==
  [b EXCEPT !.status =
     [isDown |-> FALSE, wasDown |-> b.status.wasDown,
      isHeld |-> FALSE, isPressed |-> FALSE,
      isReleased |-> b.status.wasDown]]

\* Button.step(currentlyDown)
ButtonStep(b, currentlyDown) ==
  [b EXCEPT !.status =
     [isDown |-> currentlyDown, wasDown |-> b.status.wasDown,
      isHeld |-> currentlyDown /\ b.status.wasDown,
      isPressed |-> currentlyDown /\ ~b.status.wasDown,
      isReleased |-> ~currentlyDown /\ b.status.wasDown]]

\* a faulty aging: wasDown rolls over but the edge flags are left standing
AgeStatusKeepsEdges(b) ==
  [b EXCEPT !.status =
     [isDown |-> b.status.isDown, wasDown |-> b.status.isDown,
      isReleased |-> b.status.isReleased, isHeld |-> b.status.isDown,
      isPressed |-> b.status.isPressed]]

\* the body of the loop of InputManager.ageButtons()
AgeStatus(b) ==
  [b EXCEPT !.status =
     [isDown |-> b.status.isDown, wasDown |-> b.status.isDown,
      isReleased |-> FALSE, isHeld |-> b.status.isDown,
      isPressed |-> FALSE]]

---------------------------------------------------------------------------
(* Directional *)

SubButtons == {"upButton", "rightButton", "downButton", "leftButton"}

NewDirectional(upKey, rightKey, downKey, leftKey, hAxisIndex, vAxisIndex) ==
  [upButton |-> NewButton(upKey, NoIndex),
   rightButton |-> NewButton(rightKey, NoIndex),
   downButton |-> NewButton(downKey, NoIndex),
   leftButton |-> NewButton(leftKey, NoIndex),
   hAxisIndex |-> hAxisIndex, vAxisIndex |-> vAxisIndex,
   vec |-> ZeroVec, fn |-> NoOp, keyCounter |-> 0]

\* a setVecFromButtons that leaves the sum of the contributions as it is
SetVecFromButtonsSum(d) ==
  LET x == (IF d.leftButton.status.isDown THEN -Scale ELSE 0)
           + (IF d.rightButton.status.isDown THEN Scale ELSE 0)
      y == (IF d.upButton.status.isDown THEN -Scale ELSE 0)
           + (IF d.downButton.status.isDown THEN Scale ELSE 0)
  IN [d EXCEPT !.vec = <<x, y>>]

\* Directional.setVecFromButtons()
SetVecFromButtons(d) ==
  LET x == (IF d.leftButton.status.isDown THEN -Scale ELSE 0)
           + (IF d.rightButton.status.isDown THEN Scale ELSE 0)
      y == (IF d.upButton.status.isDown THEN -Scale ELSE 0)
           + (IF d.downButton.status.isDown THEN Scale ELSE 0)
  IN [d EXCEPT !.vec = Normalize(<<x, y>>)]

\* the direction label Directional.step() passes to fn
DirectionLabel(v) ==
  IF Abs(v[1]) > Abs(v[2])
  THEN (IF v[1] > 0 THEN "right" ELSE "left")
  ELSE (IF v[2] > 0 THEN "up" ELSE "down")

\* a faulty step(): the firing branch reloads keyCounter and skips the
\* decrement, so that the repeat period is one step longer
DirectionalStepLateReload(d) ==
  IF MagnitudeIsZero(d.vec)
  THEN [dir |-> [d EXCEPT !.keyCounter = KeyDelay], label |-> NoLabel]
  ELSE IF d.keyCounter = 0
       THEN [dir |-> [d EXCEPT !.keyCounter = KeyRate],
             label |-> DirectionLabel(d.vec)]
       ELSE [dir |-> [d EXCEPT !.keyCounter = d.keyCounter - 1],
             label |-> NoLabel]

\* Directional.step(): the directional after it, and the label fn got (if any)
DirectionalStep(d) ==
  IF MagnitudeIsZero(d.vec)
  THEN [dir |-> [d EXCEPT !.keyCounter = KeyDelay], label |-> NoLabel]
  ELSE IF d.keyCounter = 0
       THEN [dir |-> [d EXCEPT !.keyCounter = KeyRate - 1],
             label |-> DirectionLabel(d.vec)]
       ELSE [dir |-> [d EXCEPT !.keyCounter = d.keyCounter - 1],
             label |-> NoLabel]

\* the loop body of the key handlers over one directional: every sub-button
\* bound to the key gets down() (or up()), then the vec is recomputed
DirectionalKey(d, key, goesDown) ==
  LET hit(s) == d[s].key = key
      d1 == [f \in DOMAIN d |->
               IF f \in SubButtons /\ hit(f)
               THEN (IF goesDown THEN ButtonDown(d[f]) ELSE ButtonUp(d[f]))
               ELSE d[f]]
  IN IF \E s \in SubButtons : hit(s) THEN SetVecFromButtons(d1) ELSE d

---------------------------------------------------------------------------
(* Gamepads (the environment) *)

\* a guard that lets every reading through
DeadZoneGuardOpen(x) == x

\* gamepad.axes[ai] read through deadZoneGuard; 0 for an undefined or absent
\* axis and for a reading of 0
DeadZoneGuard(x) == IF Abs(x) > DeadZone THEN x ELSE 0

AxisReading(gp, ai) ==
  IF ai # NoIndex /\ ai \in DOMAIN gp.axes /\ gp.axes[ai] # 0
  THEN DeadZoneGuard(gp.axes[ai])
  ELSE 0

\* bi !== undefined && gamepad.buttons[bi]
HasPadButton(gp, bi) == bi # NoIndex /\ bi \in DOMAIN gp.buttons

\* gamepad.buttons[bi].value > 0 || gamepad.buttons[bi].pressed
PadButtonDown(gp, bi) == gp.buttons[bi].value > 0 \/ gp.buttons[bi].pressed

\* the vec the poll assigns to a directional from one gamepad
StickVec(gp, d) ==
  LET v == Multiply(<<AxisReading(gp, d.hAxisIndex),
                      AxisReading(gp, d.vAxisIndex)>>, StickSensitivity)
  IN IF MagnitudeExceedsOne(v) THEN Normalize(v) ELSE v

\* the two detection loops of getGamepadInput over one gamepad
PadActive(gp, ps) ==
  \/ \E n \in DOMAIN directionals :
       \/ AxisReading(gp, ps.d[directionals[n]].hAxisIndex) # 0
       \/ AxisReading(gp, ps.d[directionals[n]].vAxisIndex) # 0
  \/ \E n \in DOMAIN buttons :
       /\ HasPadButton(gp, ps.b[buttons[n]].gpButtonIndex)
       /\ PadButtonDown(gp, ps.b[buttons[n]].gpButtonIndex)

\* the polled Button.step of the assignment phase, for one registered button
PollButton(gp, b) ==
  IF HasPadButton(gp, b.gpButtonIndex)
  THEN ButtonStep(b, PadButtonDown(gp, b.gpButtonIndex))
  ELSE b

\* the assignment phase of getGamepadInput for one gamepad
PollAssign(gp, ps) ==
  [uk |-> ps.uk,
   d |-> [id \in DOMAIN ps.d |->
            IF id \in Range(directionals)
            THEN [ps.d[id] EXCEPT !.vec = StickVec(gp, ps.d[id])]
            ELSE ps.d[id]],
   b |-> [id \in DOMAIN ps.b |->
            IF id \in Range(buttons) THEN PollButton(gp, ps.b[id])
            ELSE ps.b[id]],
   calls |-> [n \in DOMAIN ps.calls |->
                IF HasPadButton(gp, ps.b[buttons[n]].gpButtonIndex)
                THEN ps.calls[n] + 1 ELSE ps.calls[n]],
   vset |-> ps.vset \cup DOMAIN directionals]

\* a faulty loop body: the assignment phase runs only for a gamepad that is
\* itself active
PollOneOnlyActive(gp, ps) ==
  IF ~gp.connected THEN ps
  ELSE IF PadActive(gp, ps) THEN PollAssign(gp, [ps EXCEPT !.uk = FALSE])
       ELSE ps

\* the body of the loop of getGamepadInput for one entry of getGamepads()
PollOne(gp, ps) ==
  IF ~gp.connected THEN ps
  ELSE LET ps1 == [ps EXCEPT !.uk = IF PadActive(gp, ps) THEN FALSE ELSE ps.uk]
       IN IF ~ps1.uk THEN PollAssign(gp, ps1) ELSE ps1

RECURSIVE PollFrom(_, _)
PollFrom(i, ps) ==
  IF i > Len(gamepads) THEN ps ELSE PollFrom(i + 1, PollOne(gamepads[i], ps))

\* InputManager.getGamepadInput() on usingKeyboard and the two heaps
GetGamepadInput(uk, b, d) ==
  PollFrom(1, [uk |-> uk, b |-> b, d |-> d,
               calls |-> [n \in DOMAIN buttons |-> 0], vset |-> {}])

---------------------------------------------------------------------------
(* Input Manager: the step *)

\* InputManager.getAllButtons(): references to the buttons it returns.  A
\* reference is <<"button", name, "">> or <<"sub", directional, sub-button>>.
\* The result of out.concat(dir.getButtons()) is dropped by the code, so no
\* sub-button is in the array.
GetAllButtons == {<<"button", n, "">> : n \in DOMAIN buttons}

RefButton(ref, b, d) ==
  IF ref[1] = "button" THEN b[buttons[ref[2]]]
  ELSE d[directionals[ref[2]]][ref[3]]

\* the callbacks the dispatch loop of IM.step invokes
Dispatch(b, d) ==
  {<<ref, "onPressed">> : ref \in {r \in GetAllButtons :
                                      RefButton(r, b, d).status.isPressed}}
  \cup
  {<<ref, "onReleased">> : ref \in {r \in GetAllButtons :
                                      RefButton(r, b, d).status.isReleased}}

\* InputManager.ageButtons() on the Button heap
AgeButtons(b) ==
  [id \in DOMAIN b |->
     IF \E r \in GetAllButtons : r[1] = "button" /\ buttons[r[2]] = id
     THEN AgeStatus(b[id]) ELSE b[id]]

\* InputManager.ageButtons() on the sub-buttons held in the Directional heap
AgeSubButtons(d) ==
  [id \in DOMAIN d |->
     [f \in DOMAIN d[id] |->
        IF /\ f \in SubButtons
           /\ \E r \in GetAllButtons :
                r[1] = "sub" /\ directionals[r[2]] = id /\ r[3] = f
        THEN AgeStatus(d[id][f]) ELSE d[id][f]]]

\* the first line of IM.step: step() on every registered directional
StepDirectionals(d) ==
  [id \in DOMAIN d |->
     IF id \in Range(directionals) THEN DirectionalStep(d[id]).dir ELSE d[id]]

FiredPressed(n) == <<<<"button", n, "">>, "onPressed">> \in fired
FiredReleased(n) == <<<<"button", n, "">>, "onReleased">> \in fired

---------------------------------------------------------------------------
(* The tracked scenario *)

Min(a, b) == IF a < b THEN a ELSE b
Bump(n) == Min(n + 1, MaxTrack + 1)

TrackKey == bobj[buttons[TrackName]].key
HitsTracked(key) == TrackName \in DOMAIN buttons /\ key = TrackKey

NewTrk ==
  [phase |-> "idle", steps |-> 0, nP |-> 0, nR |-> 0, down |-> FALSE,
   tainted |-> FALSE]

TrkKeyDown ==
  CASE trk.phase = "idle" ->
         [trk EXCEPT !.phase = "held", !.steps = 0, !.nP = 0, !.nR = 0,
                     !.down = TRUE]
    [] trk.phase = "released" /\ trk.steps >= 1 ->
         [trk EXCEPT !.phase = "held", !.steps = 0, !.nP = 0, !.nR = 0,
                     !.down = TRUE]
    [] trk.phase = "released" /\ trk.steps = 0 ->
         [trk EXCEPT !.phase = "void", !.down = TRUE]
    [] OTHER -> [trk EXCEPT !.down = TRUE]

TrkKeyUp ==
  CASE trk.phase = "held" /\ trk.steps >= 1 ->
         [trk EXCEPT !.phase = "released", !.steps = 0, !.down = FALSE]
    [] trk.phase = "held" /\ trk.steps = 0 ->
         [trk EXCEPT !.phase = "void", !.down = FALSE]
    [] OTHER -> [trk EXCEPT !.down = FALSE]

TrkStep(firedNow, calls) ==
  LET touched == TrackName \in DOMAIN calls /\ calls[TrackName] > 0
      p == IF <<<<"button", TrackName, "">>, "onPressed">> \in firedNow
           THEN Bump(trk.nP) ELSE trk.nP
      r == IF <<<<"button", TrackName, "">>, "onReleased">> \in firedNow
           THEN Bump(trk.nR) ELSE trk.nR
  IN IF touched \/ trk.tainted
     THEN [trk EXCEPT !.phase = "void", !.tainted = TRUE]
     ELSE IF trk.phase = "void"
          THEN (IF trk.down THEN trk ELSE [trk EXCEPT !.phase = "idle"])
          ELSE IF trk.phase = "idle" THEN trk
          ELSE [trk EXCEPT !.steps = Min(trk.steps + 1, MaxTrack),
                           !.nP = p, !.nR = r]

---------------------------------------------------------------------------
(* Input Manager: the registry.  An operation on the registry maps a       *)
(* record [buttons, directionals, bobj, dobj, savedControls] to the record *)
(* after it; madeB and madeD collect the identities of the objects the     *)
(* operation constructed.                                                  *)

NoSavedControls ==
  [defined |-> FALSE, buttons |-> EmptyMap, directionals |-> EmptyMap]

Registry == [buttons |-> buttons, directionals |-> directionals,
             bobj |-> bobj, dobj |-> dobj, savedControls |-> savedControls,
             madeB |-> {}, madeD |-> {}]

\* The identity of the object that `new` makes for the name it is about to
\* be bound to.  An object is only ever bound to the name it was made for,
\* and of the objects made for one name at most two are reachable: the one
\* the live Map binds, which the new object replaces, and the one the saved
\* Map binds.  The new object gets the identity <<name, 1>> or <<name, 2>>
\* that the saved Map does not hold.
NewId(name, saved) ==
  IF name \in DOMAIN saved /\ saved[name] = <<name, 1>> THEN <<name, 2>>
  ELSE <<name, 1>>

\* `handler ?? noOp`
OrNoOp(handler) == IF handler = "undefined" THEN NoOp ELSE handler

\* a registerButton that hands the callbacks of the button it replaces on to
\* the new one
RegisterButtonKeepsCallbacks(r, name, key, gpButtonIndex) ==
  LET id == NewId(name, r.savedControls.buttons)
      old == IF name \in DOMAIN r.buttons THEN r.bobj[r.buttons[name]]
             ELSE NewButton(key, gpButtonIndex)
  IN [r EXCEPT !.buttons = MapSet(r.buttons, name, id),
               !.bobj = MapSet(r.bobj, id,
                               [NewButton(key, gpButtonIndex) EXCEPT
                                  !.onPressed = old.onPressed,
                                  !.onReleased = old.onReleased]),
               !.madeB = @ \cup {id}]

\* InputManager.registerButton(name, key, gpButtonIndex)
RegisterButton(r, name, key, gpButtonIndex) ==
  LET id == NewId(name, r.savedControls.buttons)
  IN [r EXCEPT !.buttons = MapSet(r.buttons, name, id),
               !.bobj = MapSet(r.bobj, id, NewButton(key, gpButtonIndex)),
               !.madeB = @ \cup {id}]

\* InputManager.unregisterButton(name)
UnregisterButton(r, name) == [r EXCEPT !.buttons = MapDelete(r.buttons, name)]

\* InputManager.registerDirectional(name, upKey, ..., vAxisIndex)
RegisterDirectional(r, name, upKey, rightKey, downKey, leftKey, hAxisIndex, vAxisIndex) ==
  LET id == NewId(name, r.savedControls.directionals)
  IN [r EXCEPT !.directionals = MapSet(r.directionals, name, id),
               !.dobj = MapSet(r.dobj, id,
                               NewDirectional(upKey, rightKey, downKey, leftKey,
                                              hAxisIndex, vAxisIndex)),
               !.madeD = @ \cup {id}]

\* InputManager.unregisterAll()
UnregisterAll(r) == [r EXCEPT !.buttons = EmptyMap, !.directionals = EmptyMap]

\* a setOnPressed that stores the handler as it is given
SetOnPressedRaw(r, name, handler) ==
  IF name \in DOMAIN r.buttons
  THEN [r EXCEPT !.bobj[r.buttons[name]].onPressed = handler]
  ELSE r

\* InputManager.setOnPressed(name, handler): the registry after it
SetOnPressed(r, name, handler) ==
  IF name \in DOMAIN r.buttons
  THEN [r EXCEPT !.bobj[r.buttons[name]].onPressed = OrNoOp(handler)]
  ELSE r

\* InputManager.setOnReleased(name, handler): the registry after it
SetOnReleased(r, name, handler) ==
  IF name \in DOMAIN r.buttons
  THEN [r EXCEPT !.bobj[r.buttons[name]].onReleased = OrNoOp(handler)]
  ELSE r

\* what setOnPressed / setOnReleased return
SetHandlerResult(r, name) == name \in DOMAIN r.buttons

\* InputManager.getDirectionalVec(name)
GetDirectionalVec(r, name) ==
  IF name \in DOMAIN r.directionals THEN r.dobj[r.directionals[name]].vec
  ELSE "undefined"

\* InputManager.setDirectionalFunction(label, handler)
SetDirectionalFunction(r, label, handler) ==
  IF label \in DOMAIN r.directionals
  THEN [r EXCEPT !.dobj[r.directionals[label]].fn = handler]
  ELSE r

\* InputManager.menuNavigationInputs, as the constructor sets it
MenuNavigationInputs ==
  [up |-> "w", right |-> "d", down |-> "s", left |-> "a",
   hAxis |-> 0, vAxis |-> 1,
   clickKey |-> "space", clickGP |-> 4,
   cancelKey |-> "tab", cancelGP |-> 3,
   fullscreenKey |-> "f", fullscreenGP |-> 8]

\* InputManager.enterMenuMode()
EnterMenuMode(r) ==
  LET m == MenuNavigationInputs
      r1 == UnregisterAll(r)
      r2 == RegisterDirectional(r1, "navigation", m.up, m.right, m.down,
                                m.left, m.hAxis, m.vAxis)
      r3 == RegisterButton(r2, "enter", m.clickKey, m.clickGP)
      r4 == RegisterButton(r3, "cancel", m.clickKey, m.clickGP)
      r5 == RegisterButton(r4, "fullscreen", m.fullscreenKey, m.fullscreenGP)
  IN SetOnPressed(r5, "fullscreen", "toggleFullScreen")

\* a faulty save(): a snapshot that exists is kept
SaveKeepsFirst(r) ==
  IF r.savedControls.defined THEN r
  ELSE [r EXCEPT !.savedControls =
          [defined |-> TRUE, buttons |-> r.buttons,
           directionals |-> r.directionals]]

\* InputManager.save(): savedControls becomes two fresh Maps holding the
\* same objects
Save(r) ==
  [r EXCEPT !.savedControls =
     [defined |-> TRUE,
      buttons |-> [n \in DOMAIN r.buttons |-> r.buttons[n]],
      directionals |-> [n \in DOMAIN r.directionals |-> r.directionals[n]]]]

\* a faulty restore(): only the buttons come back
RestoreButtonsOnly(r) ==
  IF r.savedControls.defined
  THEN [r EXCEPT !.buttons = r.savedControls.buttons,
                 !.savedControls = NoSavedControls]
  ELSE r

\* a faulty restore(): the slot is not looked at before it is used
RestoreUnguarded(r) ==
  [r EXCEPT !.buttons = r.savedControls.buttons,
            !.directionals = r.savedControls.directionals,
            !.savedControls = NoSavedControls]

\* InputManager.restore()
Restore(r) ==
  IF r.savedControls.defined
  THEN [r EXCEPT !.buttons = r.savedControls.buttons,
                 !.directionals = r.savedControls.directionals,
                 !.savedControls = NoSavedControls]
  ELSE r

\* Objects nothing refers to any more are dropped from the heaps (the
\* garbage collector's part); what the two Maps or the saved Maps hold stays.
Live(r) ==
  LET bs == Range(r.buttons) \cup Range(r.savedControls.buttons)
      ds == Range(r.directionals) \cup Range(r.savedControls.directionals)
  IN [r EXCEPT !.bobj = [id \in bs |-> r.bobj[id]],
               !.dobj = [id \in ds |-> r.dobj[id]]]

\* the history of an object starts when the object is made
HistOver(h, heap, made, fresh) ==
  [id \in DOMAIN heap |->
     IF id \in DOMAIN h /\ id \notin made THEN h[id] ELSE fresh]

\* an operation leaves the registry r: the program variables, and the
\* history variables that belong to objects
SetRegistry(r) ==
  LET l == Live(r)
  IN /\ buttons' = l.buttons
     /\ directionals' = l.directionals
     /\ bobj' = l.bobj
     /\ dobj' = l.dobj
     /\ savedControls' = l.savedControls
     /\ prevDown' = HistOver(prevDown, l.bobj, l.madeB, FALSE)
     /\ hold' = HistOver(hold, l.dobj, l.madeD, 0)
     /\ seenIdle' = HistOver(seenIdle, l.dobj, l.madeD, FALSE)

---------------------------------------------------------------------------
(* Input Manager: the device-event handlers *)

\* InputManager.keydownHandler(e) / keyupHandler(e), e.key = key: what they
\* leave in usingKeyboard and the two heaps
KeyHandler(key, goesDown) ==
  [uk |-> TRUE,
   d |-> [id \in DOMAIN dobj |->
            IF id \in Range(directionals)
            THEN DirectionalKey(dobj[id], key, goesDown) ELSE dobj[id]],
   b |-> [id \in DOMAIN bobj |->
            IF id \in Range(buttons) /\ bobj[id].key = key
            THEN (IF goesDown THEN ButtonDown(bobj[id]) ELSE ButtonUp(bobj[id]))
            ELSE bobj[id]]]

KeydownHandler(key) == KeyHandler(key, TRUE)
KeyupHandler(key) == KeyHandler(key, FALSE)

\* a faulty mouse handler: it claims authority for the keyboard
MouseHandlerTakesAuthority(uk) == TRUE

\* InputManager.mousedownHandler / mouseupHandler / mousemoveHandler: the
\* handler calls the registered mouse function and nothing else; what it
\* leaves in usingKeyboard
MouseHandler(uk) == uk

\* InputManager.gamepadconnectHandler()
GamepadconnectHandler == FALSE

\* InputManager.gamepaddisconnectHandler()
GamepaddisconnectHandler == TRUE

---------------------------------------------------------------------------
(* Actions *)

KeepPoll == UNCHANGED <<fired, dfired, stepCalls, vecSet, pollAuth,
                        polledRead, edgeSeen>>
KeepEdit == UNCHANGED editVars
KeepOthers == UNCHANGED domVars /\ KeepEdit
KeepObjHist == UNCHANGED <<prevDown, hold, seenIdle>>

\* a keydown event reaches the document (a first press, or auto-repeat)
KeyDown(key) ==
  LET h == KeydownHandler(key)
  IN /\ usingKeyboard' = h.uk
     /\ bobj' = h.b
     /\ dobj' = h.d
     /\ KeepOthers
     /\ lastOp' = "keydown"
     /\ call' = NoCall
     /\ lastKey' = key
     /\ trk' = IF HitsTracked(key) THEN TrkKeyDown ELSE trk
     /\ ret' = "void"
     /\ KeepPoll /\ KeepObjHist
     /\ UNCHANGED <<buttons, directionals, savedControls, mouseFunctions,
                    gamepads, snap>>

\* a keyup event reaches the document
KeyUp(key) ==
  LET h == KeyupHandler(key)
  IN /\ usingKeyboard' = h.uk
     /\ bobj' = h.b
     /\ dobj' = h.d
     /\ KeepOthers
     /\ lastOp' = "keyup"
     /\ call' = NoCall
     /\ lastKey' = key
     /\ trk' = IF HitsTracked(key) THEN TrkKeyUp ELSE trk
     /\ ret' = "void"
     /\ KeepPoll /\ KeepObjHist
     /\ UNCHANGED <<buttons, directionals, savedControls, mouseFunctions,
                    gamepads, snap>>

\* a mousedown, mouseup or mousemove event reaches the document
MouseEvent(kind) ==
  /\ usingKeyboard' = MouseHandler(usingKeyboard)
  /\ KeepOthers
  /\ lastOp' = kind
  /\ call' = NoCall
  /\ ret' = "void"
  /\ KeepPoll /\ KeepObjHist
  /\ UNCHANGED <<buttons, directionals, bobj, dobj, savedControls,
                 mouseFunctions, gamepads, lastKey, trk, snap>>

IdlePadButton == [value |-> 0, pressed |-> FALSE]
DownPadButton == [value |-> Scale, pressed |-> TRUE]

\* a gamepad is plugged in: the slot is filled, the window gets the event
PadConnect(i) ==
  /\ ~gamepads[i].connected
  /\ gamepads' = [gamepads EXCEPT ![i].connected = TRUE]
  /\ usingKeyboard' = GamepadconnectHandler
  /\ KeepOthers
  /\ lastOp' = "gamepadconnected"
  /\ call' = NoCall
  /\ ret' = "void"
  /\ KeepPoll /\ KeepObjHist
  /\ UNCHANGED <<buttons, directionals, bobj, dobj, savedControls,
                 mouseFunctions, lastKey, trk, snap>>

\* a gamepad is unplugged: the slot is emptied, the window gets the event
PadDisconnect(i) ==
  /\ gamepads[i].connected
  /\ gamepads' = [gamepads EXCEPT
                    ![i] = [connected |-> FALSE,
                            axes |-> [a \in DOMAIN gamepads[i].axes |-> 0],
                            buttons |-> [b \in DOMAIN gamepads[i].buttons |->
                                           IdlePadButton]]]
  /\ usingKeyboard' = GamepaddisconnectHandler
  /\ KeepOthers
  /\ lastOp' = "gamepaddisconnected"
  /\ call' = NoCall
  /\ ret' = "void"
  /\ KeepPoll /\ KeepObjHist
  /\ UNCHANGED <<buttons, directionals, bobj, dobj, savedControls,
                 mouseFunctions, lastKey, trk, snap>>

\* the player moves a button of a connected gamepad (no handler runs)
PadButton(i, bi, v) ==
  /\ gamepads[i].connected
  /\ bi \in DOMAIN gamepads[i].buttons
  /\ gamepads[i].buttons[bi] # v
  /\ gamepads' = [gamepads EXCEPT ![i].buttons[bi] = v]
  /\ KeepOthers
  /\ lastOp' = "padinput"
  /\ call' = NoCall
  /\ ret' = "void"
  /\ KeepPoll /\ KeepObjHist
  /\ UNCHANGED <<buttons, directionals, bobj, dobj, usingKeyboard,
                 savedControls, mouseFunctions, lastKey, trk, snap>>

\* the player moves a stick of a connected gamepad (no handler runs)
PadAxis(i, ai, v) ==
  /\ gamepads[i].connected
  /\ ai \in DOMAIN gamepads[i].axes
  /\ gamepads[i].axes[ai] # v
  /\ gamepads' = [gamepads EXCEPT ![i].axes[ai] = v]
  /\ KeepOthers
  /\ lastOp' = "padinput"
  /\ call' = NoCall
  /\ ret' = "void"
  /\ KeepPoll /\ KeepObjHist
  /\ UNCHANGED <<buttons, directionals, bobj, dobj, usingKeyboard,
                 savedControls, mouseFunctions, lastKey, trk, snap>>

\* what a poll reads for the tracked button on each gamepad
TrackedRead ==
  [i \in DOMAIN gamepads |->
     IF /\ gamepads[i].connected
        /\ TrackName \in DOMAIN buttons
        /\ HasPadButton(gamepads[i], bobj[buttons[TrackName]].gpButtonIndex)
     THEN (IF PadButtonDown(gamepads[i], bobj[buttons[TrackName]].gpButtonIndex)
           THEN "down" ELSE "up")
     ELSE "none"]

\* InputManager.step(), with at most cap consecutive steps of non-zero
\* intent explored per directional
IMStep(cap) ==
  LET d1 == StepDirectionals(dobj)
      ps == GetGamepadInput(usingKeyboard, bobj, d1)
      firedNow == Dispatch(ps.b, ps.d)
      b2 == AgeButtons(ps.b)
      d2 == AgeSubButtons(ps.d)
      auth == ~ps.uk /\ \E i \in DOMAIN gamepads : gamepads[i].connected
      nonzero(id) == ~MagnitudeIsZero(dobj[id].vec)
  IN /\ \A id \in Range(directionals) : nonzero(id) => hold[id] < cap
     /\ usingKeyboard' = ps.uk
     /\ bobj' = b2
     /\ dobj' = d2
     /\ fired' = firedNow
     /\ dfired' = [n \in DOMAIN directionals |->
                     DirectionalStep(dobj[directionals[n]]).label]
     /\ stepCalls' = ps.calls
     /\ vecSet' = ps.vset
     /\ pollAuth' = auth
     /\ polledRead' = TrackedRead
     /\ edgeSeen' =
          IF pollAuth /\ auth
          THEN {<<i, "pressed">> : i \in {j \in DOMAIN gamepads :
                   polledRead[j] = "up" /\ TrackedRead[j] = "down"}}
               \cup
               {<<i, "released">> : i \in {j \in DOMAIN gamepads :
                   polledRead[j] = "down" /\ TrackedRead[j] = "up"}}
          ELSE {}
     /\ prevDown' = [id \in DOMAIN bobj |->
                       IF id \in Range(buttons) THEN b2[id].status.isDown
                       ELSE prevDown[id]]
     /\ hold' = [id \in DOMAIN dobj |->
                   IF id \in Range(directionals)
                   THEN (IF nonzero(id) THEN hold[id] + 1 ELSE 0)
                   ELSE hold[id]]
     /\ seenIdle' = [id \in DOMAIN dobj |->
                       IF id \in Range(directionals)
                       THEN seenIdle[id] \/ ~nonzero(id)
                       ELSE seenIdle[id]]
     /\ trk' = TrkStep(firedNow, ps.calls)
     /\ KeepOthers
     /\ lastOp' = "step"
     /\ call' = NoCall
     /\ ret' = "void"
     /\ UNCHANGED <<buttons, directionals, savedControls, mouseFunctions,
                    gamepads, lastKey, snap>>

\* the history of the save() that is outstanding or was restored last: the
\* two Maps as save() copied them, the callbacks of the saved buttons as
\* last set, the saved buttons whose callbacks were set since, whether a
\* name was bound or unbound since, and whether that save() overwrote a
\* snapshot with other bindings
NoSnap ==
  [defined |-> FALSE, buttons |-> EmptyMap, directionals |-> EmptyMap,
   onPressed |-> EmptyMap, onReleased |-> EmptyMap, changed |-> {},
   rebound |-> FALSE, overwrote |-> FALSE]

SnapAt(r) ==
  [defined |-> TRUE, buttons |-> r.buttons, directionals |-> r.directionals,
   onPressed |-> [id \in Range(r.buttons) |-> r.bobj[id].onPressed],
   onReleased |-> [id \in Range(r.buttons) |-> r.bobj[id].onReleased],
   changed |-> {}, rebound |-> FALSE,
   overwrote |-> /\ r.savedControls.defined
                 /\ \/ r.savedControls.buttons # r.buttons
                    \/ r.savedControls.directionals # r.directionals]

\* a callback field of the button bound to name is assigned while a save
\* is outstanding
SnapSet(field, name, handler) ==
  IF /\ savedControls.defined
     /\ name \in DOMAIN buttons
     /\ buttons[name] \in Range(savedControls.buttons)
  THEN [snap EXCEPT ![field][buttons[name]] = handler,
                    !.changed = @ \cup {buttons[name]}]
  ELSE IF savedControls.defined THEN snap ELSE NoSnap

SnapRebound == IF savedControls.defined THEN [snap EXCEPT !.rebound = TRUE] ELSE NoSnap

\* what an operation on the registry leaves alone
KeepDevices == UNCHANGED <<usingKeyboard, mouseFunctions, gamepads, lastKey, trk>>

\* IM.save()
SaveOp ==
  /\ SetRegistry(Save(Registry))
  /\ snap' = SnapAt(Registry)
  /\ KeepOthers
  /\ lastOp' = "save"
  /\ call' = NoCall
  /\ ret' = "void"
  /\ KeepPoll /\ KeepDevices

\* the line restore() logs when the slot is empty
RestoreLog == "IM: Tried to restore undefined controls"

\* IM.restore(); ret is the line it logs when there is nothing to restore
RestoreOp ==
  /\ SetRegistry(Restore(Registry))
  /\ KeepOthers
  /\ lastOp' = "restore"
  /\ call' = NoCall
  /\ ret' = IF savedControls.defined THEN "void" ELSE RestoreLog
  /\ snap' = IF savedControls.defined THEN snap ELSE NoSnap
  /\ KeepPoll /\ KeepDevices

\* IM.registerButton(name, key, gpButtonIndex)
RegisterButtonOp(name, key, gpButtonIndex) ==
  /\ SetRegistry(RegisterButton(Registry, name, key, gpButtonIndex))
  /\ snap' = SnapRebound
  /\ KeepOthers
  /\ lastOp' = "registerButton"
  /\ call' = NoCall
  /\ ret' = "void"
  /\ KeepPoll /\ KeepDevices

\* IM.unregisterButton(name)
UnregisterButtonOp(name) ==
  /\ SetRegistry(UnregisterButton(Registry, name))
  /\ snap' = SnapRebound
  /\ KeepOthers
  /\ lastOp' = "unregisterButton"
  /\ call' = NoCall
  /\ ret' = "void"
  /\ KeepPoll /\ KeepDevices

\* IM.registerDirectional(name, upKey, rightKey, downKey, leftKey, hAxisIndex, vAxisIndex)
RegisterDirectionalOp(name, upKey, rightKey, downKey, leftKey, hAxisIndex, vAxisIndex) ==
  /\ SetRegistry(RegisterDirectional(Registry, name, upKey, rightKey, downKey,
                                     leftKey, hAxisIndex, vAxisIndex))
  /\ snap' = SnapRebound
  /\ KeepOthers
  /\ lastOp' = "registerDirectional"
  /\ call' = NoCall
  /\ ret' = "void"
  /\ KeepPoll /\ KeepDevices

\* IM.unregisterAll()
UnregisterAllOp ==
  /\ SetRegistry(UnregisterAll(Registry))
  /\ snap' = SnapRebound
  /\ KeepOthers
  /\ lastOp' = "unregisterAll"
  /\ call' = NoCall
  /\ ret' = "void"
  /\ KeepPoll /\ KeepDevices

\* IM.enterMenuMode()
EnterMenuModeOp ==
  /\ SetRegistry(EnterMenuMode(Registry))
  /\ snap' = SnapRebound
  /\ KeepOthers
  /\ lastOp' = "enterMenuMode"
  /\ call' = NoCall
  /\ ret' = "void"
  /\ KeepPoll /\ KeepDevices

\* IM.setOnPressed(name, handler)
SetOnPressedOp(name, handler) ==
  /\ SetRegistry(SetOnPressed(Registry, name, handler))
  /\ snap' = SnapSet("onPressed", name, OrNoOp(handler))
  /\ KeepOthers
  /\ lastOp' = "setOnPressed"
  /\ call' = [name |-> name, handler |-> handler]
  /\ ret' = SetHandlerResult(Registry, name)
  /\ KeepPoll /\ KeepDevices

\* IM.getDirectionalVec(name); ret is the vector returned, or "undefined"
GetDirectionalVecOp(name) ==
  /\ ret' = GetDirectionalVec(Registry, name)
  /\ UNCHANGED <<buttons, directionals, bobj, dobj, savedControls, snap>>
  /\ KeepOthers
  /\ lastOp' = "getDirectionalVec"
  /\ call' = [name |-> name, handler |-> ""]
  /\ KeepPoll /\ KeepDevices /\ KeepObjHist

\* IM.setOnReleased(name, handler)
SetOnReleasedOp(name, handler) ==
  /\ SetRegistry(SetOnReleased(Registry, name, handler))
  /\ snap' = SnapSet("onReleased", name, OrNoOp(handler))
  /\ KeepOthers
  /\ lastOp' = "setOnReleased"
  /\ call' = [name |-> name, handler |-> handler]
  /\ ret' = SetHandlerResult(Registry, name)
  /\ KeepPoll /\ KeepDevices

---------------------------------------------------------------------------
(* Listener management *)

\* the device events resetListeners() handles on document and window, in the
\* order of its calls
EventOrder ==
  <<"keydown", "keyup", "gamepadconnected", "gamepaddisconnected",
    "mousedown", "mouseup", "mousemove">>

DeviceEvents == {EventOrder[i] : i \in DOMAIN EventOrder} \cup {"contextmenu"}

\* before any startUp(): nothing is attached, no function has been bound
NoListeners == [on |-> [ev \in DeviceEvents |-> {}], binds |-> 0]

\* EventTarget.removeEventListener(type, f): drops the listener that is the
\* function f itself, if it is attached
RemoveEventListener(on, ev, f) == [on EXCEPT ![ev] = @ \ {f}]

\* EventTarget.addEventListener(type, f): attaches f unless f itself is
\* attached already
AddEventListener(on, ev, f) == [on EXCEPT ![ev] = @ \cup {f}]

RECURSIVE RemoveFrom(_, _, _)
RemoveFrom(i, on, binds) ==
  IF i > Len(EventOrder) THEN on
  ELSE RemoveFrom(i + 1, RemoveEventListener(on, EventOrder[i], binds + i), binds)

RECURSIVE AddFrom(_, _, _)
AddFrom(i, on, binds) ==
  IF i > Len(EventOrder) THEN on
  ELSE AddFrom(i + 1, AddEventListener(on, EventOrder[i], binds + i), binds)

\* InputManager.resetListeners().  Every handler.bind(this) makes a new
\* function, numbered by the count of bind calls; canvas tells whether
\* document.getElementById("canvas") finds the canvas.
ResetListeners(l, canvas) ==
  LET n == Len(EventOrder)
      on1 == RemoveFrom(1, l.on, l.binds)
      on2 == AddFrom(1, on1, l.binds + n)
      b2 == l.binds + n + n
      on3 == AddEventListener(
               RemoveEventListener(on2, "contextmenu", b2 + 1),
               "contextmenu", b2 + 2)
  IN IF canvas THEN [on |-> on3, binds |-> b2 + 2]
     ELSE [on |-> on2, binds |-> b2]

NoBoot == [startUps |-> 0, invoked |-> 0]

\* InputManager.startUp()
StartUp(canvas) ==
  /\ boot.startUps < MaxStartUps
  /\ SetRegistry(UnregisterAll(Registry))
  /\ usingKeyboard' = TRUE
  /\ listeners' = ResetListeners(listeners, canvas)
  /\ boot' = [boot EXCEPT !.startUps = @ + 1]
  /\ lastOp' = "startUp"
  /\ call' = NoCall
  /\ ret' = "void"
  /\ KeepPoll /\ KeepEdit
  /\ UNCHANGED <<mouseFunctions, gamepads, lastKey, trk, snap, game,
                 noContextMenu>>

\* the browser delivers one device event: every listener attached for its
\* type runs.  Each of the handlers leaves the same state when it runs again
\* on its own result, so what the listeners leave together is what one of
\* them leaves.
Deliver(ev, key) ==
  LET k == Cardinality(listeners.on[ev])
      h == IF ev = "keydown" THEN KeydownHandler(key) ELSE KeyupHandler(key)
      keyEv == ev \in {"keydown", "keyup"}
  IN /\ usingKeyboard' =
          IF k = 0 THEN usingKeyboard
          ELSE IF keyEv THEN h.uk
          ELSE IF ev \in {"mousedown", "mouseup", "mousemove"}
               THEN MouseHandler(usingKeyboard)
          ELSE IF ev = "gamepadconnected" THEN GamepadconnectHandler
          ELSE IF ev = "gamepaddisconnected" THEN GamepaddisconnectHandler
          ELSE usingKeyboard
     /\ bobj' = IF k > 0 /\ keyEv THEN h.b ELSE bobj
     /\ dobj' = IF k > 0 /\ keyEv THEN h.d ELSE dobj
     /\ boot' = [boot EXCEPT !.invoked = k]
     /\ lastOp' = ev
     /\ call' = NoCall
     /\ lastKey' = IF keyEv THEN key ELSE lastKey
     /\ ret' = "void"
     /\ KeepPoll /\ KeepObjHist /\ KeepEdit
     /\ UNCHANGED <<buttons, directionals, savedControls, mouseFunctions,
                    gamepads, trk, snap, listeners, game, noContextMenu>>

---------------------------------------------------------------------------
(* The Game Manager.  Times are whole milliseconds.  What Clock.split()    *)
(* returns is an input of run().                                           *)

\* the GameManager after its constructor; no timeout is pending
NewGameManager ==
  [gameOver |-> FALSE, stepCount |-> 0, adjustTime |-> 0, armed |-> 0]

\* GameManager.setGameOver(newGameOver)
SetGameOver(g, newGameOver) == [g EXCEPT !.gameOver = newGameOver]

\* a run() that arms its continuation whatever gameOver is
RunArmsAlways(g, prevIntendedSleepTime, actualSleepTime) ==
  [g EXCEPT !.stepCount = @ + 1,
            !.adjustTime = IF prevIntendedSleepTime # 0
                           THEN actualSleepTime - prevIntendedSleepTime
                           ELSE @,
            !.armed = @ + 1]

\* GameManager.run(prevIntendedSleepTime); actualSleepTime is what
\* this.clock.split() returns
Run(g, prevIntendedSleepTime, actualSleepTime) ==
  [g EXCEPT !.stepCount = @ + 1,
            !.adjustTime = IF prevIntendedSleepTime # 0
                           THEN actualSleepTime - prevIntendedSleepTime
                           ELSE @,
            !.armed = IF ~g.gameOver THEN @ + 1 ELSE @]

KeepAllButGame ==
  /\ UNCHANGED <<progVars, editVars, listeners, boot, noContextMenu>>
  /\ UNCHANGED <<lastKey, fired, dfired, stepCalls, vecSet, pollAuth,
                 polledRead, edgeSeen, prevDown, hold, seenIdle, trk, snap>>

\* GM.run(prevIntendedSleepTime), called by the program
RunOp(prevIntendedSleepTime) ==
  /\ game.stepCount < MaxRuns
  /\ \E actualSleepTime \in {15, 16, 17} :
       game' = Run(game, prevIntendedSleepTime, actualSleepTime)
  /\ lastOp' = "run"
  /\ call' = NoCall
  /\ ret' = "void"
  /\ KeepAllButGame

\* GM.setGameOver(newGameOver)
SetGameOverOp(newGameOver) ==
  /\ game' = SetGameOver(game, newGameOver)
  /\ lastOp' = "setGameOver"
  /\ call' = NoCall
  /\ ret' = "void"
  /\ KeepAllButGame

\* the browser runs a timeout that run() armed: setTimeout got this.run, the
\* method without its object, so the call has no `this` and its first
\* statement, this.stepCount++, throws a TypeError before anything is
\* assigned
TimeoutOp ==
  /\ game.armed > 0
  /\ game' = [game EXCEPT !.armed = @ - 1]
  /\ lastOp' = "timeout"
  /\ call' = NoCall
  /\ ret' = "TypeError"
  /\ KeepAllButGame

---------------------------------------------------------------------------
(* The room editor.  World coordinates are whole numbers; a vector is a    *)
(* pair.  A mouse event ev carries button, shiftKey, world (what           *)
(* DM.windowToWorldCoord makes of its client position) and hit, the        *)
(* objects whose contains() test answers true for the clicked point.       *)

Undefined == <<>>

VecAdd(a, b) == <<a[1] + b[1], a[2] + b[2]>>
VecSubtract(a, b) == <<a[1] - b[1], a[2] - b[2]>>

\* Polygon.translate(delta)
PolygonTranslate(pts, delta) == [i \in DOMAIN pts |-> VecAdd(pts[i], delta)]

\* what Polygon.scale may leave: as many points as before, each anywhere
\* among the places
PolygonScaled(pts, places) == [DOMAIN pts -> places]

\* the box b after the shift-drag of mousemoveHandler: it grows by the mouse
\* delta on the side of its center the mouse is on, and stays centered
BoxGrow(b, vec, delta) ==
  LET x == IF 2 * (vec[1] - b.topLeft[1]) - b.width > 0
           THEN delta[1] ELSE -delta[1]
      y == IF 2 * (vec[2] - b.topLeft[2]) - b.height > 0
           THEN delta[2] ELSE -delta[2]
  IN [topLeft |-> VecSubtract(b.topLeft, <<x \div 2, y \div 2>>),
      width |-> b.width + x,
      height |-> b.height + y]

BoxMove(b, delta) == [b EXCEPT !.topLeft = VecAdd(@, delta)]

\* the overlays enter() builds, by their place in uiElements
UiElements ==
  <<"edit-menu-move", "edit-menu-barrier", "edit-instructions-barrier",
    "edit-instructions-move", "edit-menu-export">>

\* the first / the last element of the list that is in the set
FirstIn(list, set) ==
  LET I == {i \in DOMAIN list : list[i] \in set}
  IN IF I = {} THEN Undefined
     ELSE list[CHOOSE i \in I : \A j \in I : i <= j]

LastIn(list, set) ==
  LET I == {i \in DOMAIN list : list[i] \in set}
  IN IF I = {} THEN Undefined
     ELSE list[CHOOSE i \in I : \A j \in I : i >= j]

\* Array.indexOf and Array.splice(index, 1)
IndexOf(list, x) ==
  IF \E i \in DOMAIN list : list[i] = x
  THEN (CHOOSE i \in DOMAIN list : list[i] = x /\ \A j \in 1..(i - 1) : list[j] # x) - 1
  ELSE NoIndex

Splice(list, index) ==
  [i \in 1..(Len(list) - 1) |-> IF i <= index THEN list[i] ELSE list[i + 1]]

\* new Polygon(): an object no live polygon is
NewPolygon(w) ==
  <<"Polygon",
    CHOOSE n \in 1..(Cardinality(DOMAIN w.polygons) + 1) :
      /\ <<"Polygon", n>> \notin DOMAIN w.polygons
      /\ \A m \in 1..(n - 1) : <<"Polygon", m>> \in DOMAIN w.polygons>>

\* the Polygon objects something still refers to
Reachable(w) ==
  [w EXCEPT !.polygons =
     [id \in {w.completedPolygons[i] : i \in DOMAIN w.completedPolygons}
               \cup ({w.selectedPolygon} \ {Undefined}) |-> w.polygons[id]]]

\* a cancel that clears the polygon slot only
CancelPolygonOnly(w) == [w EXCEPT !.selectedPolygon = Undefined]

\* WorldRoomEditor.cancel()
Cancel(w) ==
  [w EXCEPT !.selectedPolygon = Undefined,
            !.selectedBgObj = Undefined,
            !.selectedEntity = Undefined]

\* a hit test that tries the entities before the polygons
SelectAtEntitiesFirst(w, hit) ==
  LET p == FirstIn(w.completedPolygons, hit)
      e == FirstIn(w.entities, hit)
      g == LastIn(w.backgrounds, hit)
  IN IF w.roomDefined /\ e # Undefined THEN [w EXCEPT !.selectedEntity = e]
     ELSE IF p # Undefined THEN [w EXCEPT !.selectedPolygon = p]
     ELSE IF w.roomDefined /\ g # Undefined THEN [w EXCEPT !.selectedBgObj = g]
     ELSE w

\* the hit test of a select-mode click: completed polygons in list order,
\* then the room's entities in list order, then its backgrounds from the
\* last to the first
SelectAt(w, hit) ==
  LET p == FirstIn(w.completedPolygons, hit)
      e == FirstIn(w.entities, hit)
      g == LastIn(w.backgrounds, hit)
  IN IF p # Undefined THEN [w EXCEPT !.selectedPolygon = p]
     ELSE IF ~w.roomDefined THEN w
     ELSE IF e # Undefined THEN [w EXCEPT !.selectedEntity = e]
     ELSE IF g # Undefined THEN [w EXCEPT !.selectedBgObj = g]
     ELSE w

\* a mousedownHandler that leaves the completed polygon in the slot
MousedownKeepsSlot(w, ev) ==
  LET vec == VecAdd(ev.world, w.cameraOffset)
      w1 == [w EXCEPT !.mouseIsDown = TRUE, !.mousePos = vec]
      fresh == w.selectedPolygon = Undefined
      poly == IF fresh THEN NewPolygon(w) ELSE w.selectedPolygon
      pts == IF fresh THEN <<vec>> ELSE Append(w.polygons[poly], vec)
      w2 == [w1 EXCEPT !.selectedPolygon = poly,
                       !.polygons = MapSet(@, poly, pts)]
  IN IF ev.button = 2 THEN [w1 EXCEPT !.dragging = TRUE]
     ELSE IF w.mode = "drawBarrier"
     THEN IF ev.shiftKey /\ Len(pts) > 2
          THEN [w2 EXCEPT !.completedPolygons = Append(@, poly)]
          ELSE w2
     ELSE IF w.mode = "select" /\ ~ev.shiftKey
     THEN Reachable(SelectAt(Cancel(w1), ev.hit))
     ELSE w1

\* a mousedownHandler whose shift-click closes a polygon of any length
MousedownClosesAny(w, ev) ==
  LET vec == VecAdd(ev.world, w.cameraOffset)
      w1 == [w EXCEPT !.mouseIsDown = TRUE, !.mousePos = vec]
      fresh == w.selectedPolygon = Undefined
      poly == IF fresh THEN NewPolygon(w) ELSE w.selectedPolygon
      pts == IF fresh THEN <<vec>> ELSE Append(w.polygons[poly], vec)
      w2 == [w1 EXCEPT !.selectedPolygon = poly,
                       !.polygons = MapSet(@, poly, pts)]
  IN IF ev.button = 2 THEN [w1 EXCEPT !.dragging = TRUE]
     ELSE IF w.mode = "drawBarrier"
     THEN IF ev.shiftKey
          THEN [w2 EXCEPT !.completedPolygons = Append(@, poly),
                          !.selectedPolygon = Undefined]
          ELSE w2
     ELSE IF w.mode = "select" /\ ~ev.shiftKey
     THEN Reachable(SelectAt(Cancel(w1), ev.hit))
     ELSE w1

\* WorldRoomEditor.mousedownHandler(ev)
MousedownHandler(w, ev) ==
  LET vec == VecAdd(ev.world, w.cameraOffset)
      w1 == [w EXCEPT !.mouseIsDown = TRUE, !.mousePos = vec]
      fresh == w.selectedPolygon = Undefined
      poly == IF fresh THEN NewPolygon(w) ELSE w.selectedPolygon
      pts == IF fresh THEN <<vec>> ELSE Append(w.polygons[poly], vec)
      w2 == [w1 EXCEPT !.selectedPolygon = poly,
                       !.polygons = MapSet(@, poly, pts)]
  IN IF ev.button = 2 THEN [w1 EXCEPT !.dragging = TRUE]
     ELSE IF w.mode = "drawBarrier"
     THEN IF ev.shiftKey /\ Len(pts) > 2
          THEN [w2 EXCEPT !.completedPolygons = Append(@, poly),
                          !.selectedPolygon = Undefined]
          ELSE w2
     ELSE IF w.mode = "select" /\ ~ev.shiftKey
     THEN Reachable(SelectAt(Cancel(w1), ev.hit))
     ELSE w1

\* what the branch of mousemoveHandler for a held button in select mode
\* leaves of the selected objects; scaled is what Polygon.scale left
MoveSelection(w, ev, vec, delta, scaled) ==
  LET p == w.selectedPolygon
      g == w.selectedBgObj
      e == w.selectedEntity
      pg == IF p = Undefined THEN w.polygons
            ELSE [w.polygons EXCEPT ![p] =
                    IF ev.shiftKey THEN scaled ELSE PolygonTranslate(@, delta)]
      b1 == IF g = Undefined THEN w.boxes
            ELSE [w.boxes EXCEPT ![g] =
                    IF ev.shiftKey THEN BoxGrow(@, vec, delta)
                    ELSE BoxMove(@, delta)]
      b2 == IF e = Undefined THEN b1
            ELSE [b1 EXCEPT ![e] =
                    IF ev.shiftKey THEN BoxGrow(@, vec, delta)
                    ELSE BoxMove(@, delta)]
  IN [w EXCEPT !.polygons = pg, !.boxes = b2]

\* a mouse move that handles the selection even while the camera is dragged
MousemoveHandlerDragsOn(w, ev, scaled) ==
  LET vec == VecAdd(ev.world, w.cameraOffset)
      delta == VecSubtract(vec, w.mousePos)
      w1 == IF w.dragging
            THEN [w EXCEPT !.cameraOffset = VecSubtract(@, delta)]
            ELSE w
  IN [MoveSelection(w1, ev, vec, delta, scaled) EXCEPT !.mousePos = vec]

\* WorldRoomEditor.mousemoveHandler(ev)
MousemoveHandler(w, ev, scaled) ==
  LET vec == VecAdd(ev.world, w.cameraOffset)
      delta == VecSubtract(vec, w.mousePos)
  IN IF w.dragging
     THEN [w EXCEPT !.cameraOffset = VecSubtract(@, delta)]
     ELSE IF w.mouseIsDown /\ w.mode = "select"
     THEN [MoveSelection(w, ev, vec, delta, scaled) EXCEPT !.mousePos = vec]
     ELSE [w EXCEPT !.mousePos = vec]

\* WorldRoomEditor.selectMouseupHandler(ev)
SelectMouseupHandler(w, ev) ==
  [w EXCEPT !.mouseIsDown = FALSE,
            !.dragging = FALSE,
            !.mousePos = VecAdd(ev.world, w.cameraOffset)]

\* a delete that removes the polygon and leaves it in the selection slot
DeleteKeepsSelection(w) ==
  LET index == IndexOf(w.completedPolygons, w.selectedPolygon)
  IN IF w.selectedPolygon # Undefined /\ index > NoIndex
     THEN [w EXCEPT !.completedPolygons = Splice(@, index)]
     ELSE w

\* WorldRoomEditor.delete()
Delete(w) ==
  LET pi == IndexOf(w.completedPolygons, w.selectedPolygon)
      gi == IndexOf(w.backgrounds, w.selectedBgObj)
      ei == IndexOf(w.entities, w.selectedEntity)
      afterBg ==
        IF w.roomDefined /\ w.selectedEntity # Undefined /\ ei > NoIndex
        THEN [w EXCEPT !.entities = Splice(@, ei),
                       !.boxes = MapDelete(@, w.selectedEntity),
                       !.about = MapDelete(@, w.selectedEntity),
                       !.selectedEntity = Undefined]
        ELSE w
  IN IF w.selectedPolygon # Undefined
     THEN IF pi > NoIndex
          THEN Reachable([w EXCEPT !.completedPolygons = Splice(@, pi),
                                   !.selectedPolygon = Undefined])
          ELSE w
     ELSE IF w.roomDefined /\ w.selectedBgObj # Undefined /\ gi > NoIndex
     THEN [w EXCEPT !.backgrounds = Splice(@, gi),
                    !.boxes = MapDelete(@, w.selectedBgObj),
                    !.selectedBgObj = Undefined]
     ELSE afterBg

\* UM.setCornerUI(corner, element): the corner slot holds the element
SetCornerUI(slots, corner, element) == [slots EXCEPT ![corner] = element]

\* a setMode that keeps what is selected
SetModeKeepsSelection(w, newMode) ==
  [w EXCEPT !.mode = newMode,
            !.corner =
              IF newMode = "drawBarrier"
              THEN SetCornerUI(SetCornerUI(@, "top left", UiElements[2]),
                               "top right", UiElements[3])
              ELSE SetCornerUI(SetCornerUI(@, "top left", UiElements[1]),
                               "top right", UiElements[4])]

\* WorldRoomEditor.setMode(newMode); uiElements[k] of the source is
\* UiElements[k + 1]
SetMode(w, newMode) ==
  LET w1 == Reachable(Cancel([w EXCEPT !.mode = newMode]))
  IN [w1 EXCEPT !.corner =
        IF newMode = "drawBarrier"
        THEN SetCornerUI(SetCornerUI(@, "top left", UiElements[2]),
                         "top right", UiElements[3])
        ELSE SetCornerUI(SetCornerUI(@, "top left", UiElements[1]),
                         "top right", UiElements[4])]

\* the editor, the room and the corner slots as one record, and back
EditorFields ==
  {"mode", "completedPolygons", "selectedPolygon", "selectedBgObj",
   "selectedEntity", "mousePos", "mouseIsDown", "dragging", "cameraOffset",
   "polygons"}
RoomFields == {"roomDefined", "entities", "backgrounds", "boxes", "about"}

World ==
  [f \in EditorFields \cup RoomFields \cup {"corner"} |->
     IF f \in EditorFields THEN editor[f]
     ELSE IF f \in RoomFields THEN room[f]
     ELSE cornerUI]

SetWorld(w) ==
  /\ editor' = [f \in EditorFields |-> w[f]]
  /\ room' = [f \in RoomFields |-> w[f]]
  /\ cornerUI' = w.corner

\* the fields the WorldRoomEditor constructor sets; the selection fields it
\* leaves out are undefined
NewEditor ==
  [mode |-> "drawBarrier", completedPolygons |-> <<>>,
   selectedPolygon |-> Undefined, selectedBgObj |-> Undefined,
   selectedEntity |-> Undefined, mousePos |-> ZeroVec,
   mouseIsDown |-> FALSE, dragging |-> FALSE, cameraOffset |-> ZeroVec,
   polygons |-> EmptyMap]

NoRoom ==
  [roomDefined |-> FALSE, entities |-> <<>>, backgrounds |-> <<>>,
   boxes |-> EmptyMap, about |-> EmptyMap]

NoCornerUI ==
  [c \in {"top left", "top right", "bottom left", "bottom right"} |->
     "undefined"]

\* the corner slots after WorldRoomEditor.enter()
EnteredCornerUI ==
  SetCornerUI(SetCornerUI(SetCornerUI(NoCornerUI, "bottom left", UiElements[5]),
                          "top left", UiElements[2]),
              "top right", UiElements[3])

\* the mouse functions enter() installs
EditorMouseFunctions ==
  [down |-> "mousedownHandler", up |-> "selectMouseupHandler",
   move |-> "mousemoveHandler"]

\* no mouse event was the last operation
NoClick == [button |-> -1, shiftKey |-> FALSE, hit |-> {}, world |-> ZeroVec]

\* clicks and base tell of the polygon in progress; drawn and moves count
\* the drawBarrier clicks and the moves of the explored run; last is the
\* mousedown or mousemove event when that was the last operation
NoLog ==
  [fromEmpty |-> FALSE, clicks |-> <<>>, base |-> <<>>, drawn |-> 0,
   moves |-> 0, last |-> NoClick]

\* the log after an operation that is no mouse event
Interrupted(l) == [NoLog EXCEPT !.drawn = l.drawn, !.moves = l.moves]

\* a left click in drawBarrier mode joins the clicks made on the polygon in
\* progress; a click that finds the slot empty starts the list anew
LogClick(ev) ==
  LET c == [shiftKey |-> ev.shiftKey,
            vec |-> VecAdd(ev.world, editor.cameraOffset)]
      l == [elog EXCEPT !.last = ev]
  IN IF ev.button = 2 \/ editor.mode # "drawBarrier" THEN l
     ELSE IF editor.selectedPolygon = Undefined
     THEN [l EXCEPT !.fromEmpty = TRUE, !.clicks = <<c>>,
                    !.base = editor.completedPolygons, !.drawn = @ + 1]
     ELSE [l EXCEPT !.clicks = Append(@, c), !.drawn = @ + 1]

\* the places of the canvas the mouse events of the editor are at, in
\* world coordinates
WorldPoints == {<<0, 0>>, <<2, 4>>}

KeepInput ==
  /\ KeepPoll /\ KeepObjHist
  /\ UNCHANGED <<buttons, directionals, bobj, dobj, savedControls, gamepads,
                 domVars, lastKey, trk, snap>>

\* a mousedown event: InputManager.mousedownHandler passes it to the
\* editor's mousedownHandler
EditorMouseDown(ev, cap) ==
  /\ mouseFunctions.down = "mousedownHandler"
  /\ (ev.button # 2 /\ editor.mode = "drawBarrier") => elog.drawn < cap
  /\ ev.hit # {} => (ev.button # 2 /\ editor.mode = "select" /\ ~ev.shiftKey)
  /\ SetWorld(MousedownHandler(World, ev))
  /\ usingKeyboard' = MouseHandler(usingKeyboard)
  /\ UNCHANGED mouseFunctions
  /\ elog' = LogClick(ev)
  /\ lastOp' = "mousedown"
  /\ call' = NoCall
  /\ ret' = "void"
  /\ KeepInput

\* a mousemove event
EditorMouseMove(ev) ==
  LET acts == editor.dragging \/ (editor.mouseIsDown /\ editor.mode = "select")
      p == editor.selectedPolygon
      scales == acts /\ ~editor.dragging /\ ev.shiftKey /\ p # Undefined
  IN /\ mouseFunctions.move = "mousemoveHandler"
     /\ acts => elog.moves < MaxMoves
     /\ \E scaled \in IF scales THEN PolygonScaled(editor.polygons[p], WorldPoints)
                      ELSE {<<>>} :
          SetWorld(MousemoveHandler(World, ev, scaled))
     /\ usingKeyboard' = MouseHandler(usingKeyboard)
     /\ UNCHANGED mouseFunctions
     /\ elog' = [elog EXCEPT !.moves = IF acts THEN @ + 1 ELSE @,
                             !.last = [NoClick EXCEPT !.shiftKey = ev.shiftKey,
                                                      !.world = ev.world]]
     /\ lastOp' = "mousemove"
     /\ call' = NoCall
     /\ ret' = "void"
     /\ KeepInput

\* a mouseup event
EditorMouseUp(ev) ==
  /\ mouseFunctions.up = "selectMouseupHandler"
  /\ SetWorld(SelectMouseupHandler(World, ev))
  /\ usingKeyboard' = MouseHandler(usingKeyboard)
  /\ UNCHANGED mouseFunctions
  /\ elog' = [elog EXCEPT !.last = NoClick]
  /\ lastOp' = "mouseup"
  /\ call' = NoCall
  /\ ret' = "void"
  /\ KeepInput

\* an export that takes the polygon in progress for a barrier too
ExportStringWithSlot(w) ==
  LET all == IF w.selectedPolygon = Undefined THEN w.completedPolygons
             ELSE Append(w.completedPolygons, w.selectedPolygon)
  IN [barriers |-> [i \in DOMAIN all |-> w.polygons[all[i]]],
      bgObjects |-> [i \in DOMAIN w.backgrounds |->
                      [box |-> w.boxes[w.backgrounds[i]]]],
      entityDefinitions |->
        [i \in DOMAIN w.entities |->
           [label |-> w.about[w.entities[i]].label,
            drawBox |-> w.boxes[w.entities[i]],
            altitude |-> w.about[w.entities[i]].altitude]]]

\* WorldRoomEditor.exportString(): the document JSON.stringify writes, as the
\* value it denotes.  A polygon is written as its points, a background
\* with its box; object identities are not written.
ExportString(w) ==
  [barriers |-> [i \in DOMAIN w.completedPolygons |->
                  w.polygons[w.completedPolygons[i]]],
   bgObjects |-> IF w.roomDefined
                 THEN [i \in DOMAIN w.backgrounds |->
                         [box |-> w.boxes[w.backgrounds[i]]]]
                 ELSE <<>>,
   entityDefinitions |->
     IF w.roomDefined
     THEN [i \in DOMAIN w.entities |->
             [label |-> w.about[w.entities[i]].label,
              drawBox |-> w.boxes[w.entities[i]],
              altitude |-> w.about[w.entities[i]].altitude]]
     ELSE <<>>]

\* the onPressed callback of button "export": the document goes to the
\* clipboard
ExportOp ==
  /\ ret' = ExportString(World)
  /\ elog' = Interrupted(elog)
  /\ lastOp' = "export"
  /\ call' = NoCall
  /\ UNCHANGED <<usingKeyboard, mouseFunctions, editor, room, cornerUI>>
  /\ KeepInput

\* the onPressed callback of button "delete"
DeleteOp ==
  /\ SetWorld(Delete(World))
  /\ elog' = Interrupted(elog)
  /\ lastOp' = "delete"
  /\ call' = NoCall
  /\ ret' = "void"
  /\ UNCHANGED <<usingKeyboard, mouseFunctions>>
  /\ KeepInput

\* the onPressed callbacks of buttons "select-mode" and "barrier-mode"
SetModeOp(newMode) ==
  /\ SetWorld(SetMode(World, newMode))
  /\ elog' = Interrupted(elog)
  /\ lastOp' = "setMode"
  /\ call' = NoCall
  /\ ret' = newMode
  /\ UNCHANGED <<usingKeyboard, mouseFunctions>>
  /\ KeepInput

\* WorldRoomEditor.cancel(), called from outside the editor
CancelOp ==
  /\ SetWorld(Reachable(Cancel(World)))
  /\ elog' = Interrupted(elog)
  /\ lastOp' = "cancel"
  /\ call' = NoCall
  /\ ret' = "void"
  /\ UNCHANGED <<usingKeyboard, mouseFunctions>>
  /\ KeepInput

---------------------------------------------------------------------------
(* Initial states *)

\* the registry the constructor of InputManager leaves
EmptyRegistry ==
  [buttons |-> EmptyMap, directionals |-> EmptyMap,
   bobj |-> EmptyMap, dobj |-> EmptyMap, savedControls |-> NoSavedControls,
   madeB |-> {}, madeD |-> {}]

\* InputManager.mouseFunctions as the constructor sets it
NoMouseFunctions == [down |-> NoOp, up |-> NoOp, move |-> NoOp]

\* an empty slot of navigator.getGamepads() for a pad with the given buttons
PadSlot(buttonIdx) ==
  [connected |-> FALSE, axes |-> [a \in {0, 1} |-> 0],
   buttons |-> [b \in buttonIdx |-> IdlePadButton]]

\* the Input Manager holding the registry r, before any device event
InitState(r, pads, uk, l, b) ==
  /\ buttons = r.buttons
  /\ directionals = r.directionals
  /\ bobj = r.bobj
  /\ dobj = r.dobj
  /\ usingKeyboard = uk
  /\ savedControls = r.savedControls
  /\ gamepads = pads
  /\ lastOp = "init"
  /\ lastKey = ""
  /\ fired = {}
  /\ dfired = [n \in DOMAIN r.directionals |-> NoLabel]
  /\ stepCalls = [n \in DOMAIN r.buttons |-> 0]
  /\ vecSet = {}
  /\ pollAuth = FALSE
  /\ polledRead = [i \in DOMAIN pads |-> "none"]
  /\ edgeSeen = {}
  /\ prevDown = [id \in DOMAIN r.bobj |-> FALSE]
  /\ hold = [id \in DOMAIN r.dobj |-> 0]
  /\ seenIdle = [id \in DOMAIN r.dobj |-> FALSE]
  /\ trk = NewTrk
  /\ snap = NoSnap
  /\ ret = "void"
  /\ call = NoCall
  /\ listeners = l
  /\ boot = b
  /\ game = NewGameManager

\* the state after the game's one startUp(), with the canvas in the document
\* no room editor has been made
NoEditorYet ==
  /\ mouseFunctions = NoMouseFunctions
  /\ editor = NewEditor
  /\ room = NoRoom
  /\ cornerUI = NoCornerUI
  /\ elog = NoLog
  /\ noContextMenu = FALSE

InitWith(r, pads) ==
  /\ InitState(r, pads, TRUE, ResetListeners(NoListeners, TRUE),
               [NoBoot EXCEPT !.startUps = 1])
  /\ NoEditorYet

---------------------------------------------------------------------------
(* SpecKey: one button, "act", on key "k" and gamepad button 0; two        *)
(* gamepad slots.  Key events, gamepad events and readings, and steps      *)
(* interleave freely.                                                      *)

KeyControls == RegisterButton(EmptyRegistry, "act", "k", 0)

InitKey == InitWith(KeyControls, <<PadSlot({0}), PadSlot({0})>>)

KeyDownK == KeyDown("k")
KeyUpK == KeyUp("k")
PadConnectKey == \E i \in 1..2 : PadConnect(i)
PadDisconnectKey == \E i \in 1..2 : PadDisconnect(i)
PadButtonKey == \E i \in 1..2 : \E v \in {IdlePadButton, DownPadButton} : PadButton(i, 0, v)
StepKey == IMStep(MaxHoldPoll)

NextKey ==
  \/ KeyDownK
  \/ KeyUpK
  \/ PadConnectKey
  \/ PadDisconnectKey
  \/ PadButtonKey
  \/ StepKey

SpecKey == InitKey /\ [][NextKey]_vars

Act == bobj[buttons[TrackName]]

\* C1: right after a keydown or keyup on the key of the registered button
\* (Button.down() or Button.up()), its Status is the row of the transition
\* table for wasDown = its isDown at the end of the previous IM.step:
\* isDown is true after down() and false after up(), isPressed = isDown and
\* not wasDown, isHeld = isDown and wasDown, isReleased = not isDown and
\* wasDown.  (It holds for every interleaving of calls and steps, so also
\* when each call is followed by exactly one step.)
C1_StatusMatchesTable ==
  (lastOp \in {"keydown", "keyup"} /\ HitsTracked(lastKey)) =>
    LET st == Act.status
        wasDown == prevDown[buttons[TrackName]]
        isDown == (lastOp = "keydown")
    IN /\ st.isDown = isDown
       /\ st.wasDown = wasDown
       /\ st.isPressed = (isDown /\ ~wasDown)
       /\ st.isHeld = (isDown /\ wasDown)
       /\ st.isReleased = (~isDown /\ wasDown)

\* C1, its case: an up() right after a step that saw the key down, on a
\* button only the keyboard has driven
C1_Witness ==
  /\ lastOp = "keyup"
  /\ ~trk.tainted
  /\ trk.phase = "released"
  /\ Act.status.isReleased
  /\ ~Act.status.isDown

C3_PadEdgeFiresSameStep ==
  lastOp = "step" =>
    \A i \in DOMAIN gamepads :
      /\ <<i, "pressed">> \in edgeSeen => FiredPressed(TrackName)
      /\ <<i, "released">> \in edgeSeen => FiredReleased(TrackName)

\* C5: in an IM.step whose poll has gamepad authority, the polled
\* Button.step is applied exactly once to a registered button that has a
\* gamepad button, however many gamepads are connected.
C5_OnePolledStepPerButton ==
  (lastOp = "step" /\ pollAuth) =>
    \A n \in DOMAIN buttons :
      bobj[buttons[n]].gpButtonIndex # NoIndex => stepCalls[n] = 1

---------------------------------------------------------------------------
(* SpecDir: one directional, "move", on the keys w/d/s/a, freshly          *)
(* registered, driven by the keyboard; no gamepad is plugged in.           *)

DirControls ==
  RegisterDirectional(EmptyRegistry, "move", "w", "d", "s", "a", 0, 1)

InitDir == InitWith(DirControls, <<>>)

DirKeys == {"w", "d", "s", "a"}

KeyDownDir == \E key \in DirKeys : KeyDown(key)
KeyUpDir == \E key \in DirKeys : KeyUp(key)
StepDir == IMStep(MaxHold)

NextDir ==
  \/ KeyDownDir
  \/ KeyUpDir
  \/ StepDir

SpecDir == InitDir /\ [][NextDir]_vars

Move == dobj[directionals["move"]]

Aged(st) == st.wasDown = st.isDown /\ ~st.isPressed /\ ~st.isReleased

\* C4: at the end of every IM.step, every registered button and each of the
\* four sub-buttons of every registered directional has been aged:
\* wasDown = isDown, isPressed = false, isReleased = false.
C4_AllButtonsAged ==
  lastOp = "step" =>
    /\ \A n \in DOMAIN buttons : Aged(bobj[buttons[n]].status)
    /\ \A n \in DOMAIN directionals :
         \A s \in SubButtons : Aged(dobj[directionals[n]][s].status)

KeysDown(d) == {s \in SubButtons : d[s].status.isDown}

\* C7: when the repeat callback of the keyboard-driven directional fires
\* while exactly one of its four keys is down, the label is that key's
\* direction.
C7_LabelIsKeyDirection ==
  (lastOp = "step" /\ dfired["move"] # NoLabel /\ Cardinality(KeysDown(Move)) = 1) =>
    /\ Move.upButton.status.isDown => dfired["move"] = "up"
    /\ Move.downButton.status.isDown => dfired["move"] = "down"
    /\ Move.leftButton.status.isDown => dfired["move"] = "left"
    /\ Move.rightButton.status.isDown => dfired["move"] = "right"

---------------------------------------------------------------------------
(* SpecPoll: the buttons "act" (key k, gamepad button 0) and "aux" (key j, *)
(* no gamepad button) and the directional "move" (axes 0 and 1); two       *)
(* gamepad slots, the first with sticks that move.                         *)

PollControls ==
  RegisterDirectional(
    RegisterButton(RegisterButton(EmptyRegistry, "act", "k", 0),
                   "aux", "j", NoIndex),
    "move", "w", "d", "s", "a", 0, 1)

InitPoll == InitWith(PollControls, <<PadSlot({0}), PadSlot({0})>>)

KeyDownPoll == KeyDown("j")
KeyUpPoll == KeyUp("j")
PadConnectPoll == \E i \in 1..2 : PadConnect(i)
PadDisconnectPoll == \E i \in 1..2 : PadDisconnect(i)
PadButtonPoll == \E i \in 1..2 : \E v \in {IdlePadButton, DownPadButton} : PadButton(i, 0, v)
PadAxisPoll == \E v \in {0, Scale} : PadAxis(1, 0, v)
StepPoll == IMStep(MaxHoldPoll)

NextPoll ==
  \/ KeyDownPoll
  \/ KeyUpPoll
  \/ PadConnectPoll
  \/ PadDisconnectPoll
  \/ PadButtonPoll
  \/ PadAxisPoll
  \/ StepPoll

SpecPoll == InitPoll /\ [][NextPoll]_vars

Aux == bobj[buttons["aux"]]

Connected == {i \in DOMAIN gamepads : gamepads[i].connected}

\* the gamepad the loop of the poll visits last
LastPad == gamepads[CHOOSE i \in Connected : \A j \in Connected : j <= i]

---------------------------------------------------------------------------
(* SpecAuth: the button "act" (key k, gamepad button 0) and the            *)
(* directional "move" (axes 0 and 1); one gamepad slot.  Keyboard, mouse   *)
(* and gamepad events, stick and button readings, and steps.               *)

AuthControls ==
  RegisterDirectional(RegisterButton(EmptyRegistry, "act", "k", 0),
                      "move", "w", "d", "s", "a", 0, 1)

InitAuth == InitWith(AuthControls, <<PadSlot({0})>>)

MouseKinds == {"mousedown", "mouseup", "mousemove"}
KeyKinds == {"keydown", "keyup"}

\* stick readings: at rest, inside the dead zone, just outside it
HAxisVals == {0, 150, 201}

KeyDownAuth == KeyDown("k")
KeyUpAuth == KeyUp("k")
MouseAuth == \E kind \in MouseKinds : MouseEvent(kind)
PadConnectAuth == PadConnect(1)
PadDisconnectAuth == PadDisconnect(1)
PadButtonAuth == \E v \in {IdlePadButton, DownPadButton} : PadButton(1, 0, v)
PadAxisAuth == \E v \in HAxisVals : PadAxis(1, 0, v)
StepAuth == IMStep(MaxHoldPoll)

NextAuth ==
  \/ KeyDownAuth
  \/ KeyUpAuth
  \/ MouseAuth
  \/ PadConnectAuth
  \/ PadDisconnectAuth
  \/ PadButtonAuth
  \/ PadAxisAuth
  \/ StepAuth

SpecAuth == InitAuth /\ [][NextAuth]_vars

\* a connected gamepad shows a watched axis beyond the dead zone or a watched
\* button active
PollSaw ==
  \E i \in DOMAIN gamepads :
    /\ gamepads[i].connected
    /\ \/ \E n \in DOMAIN directionals : \E ai \in DOMAIN gamepads[i].axes :
            /\ ai \in {dobj[directionals[n]].hAxisIndex,
                       dobj[directionals[n]].vAxisIndex}
            /\ Abs(gamepads[i].axes[ai]) > DeadZone
       \/ \E n \in DOMAIN buttons : \E bi \in DOMAIN gamepads[i].buttons :
            /\ bi = bobj[buttons[n]].gpButtonIndex
            /\ (gamepads[i].buttons[bi].value > 0 \/ gamepads[i].buttons[bi].pressed)

\* C8, as stated: right after a keyboard event (keydown, keyup) or a mouse
\* event (mousedown, mouseup, mousemove) usingKeyboard is true; right after
\* an IM.step whose poll saw a watched axis beyond the dead zone or a watched
\* gamepad button active, usingKeyboard is false.
C8_KeyAndMouseTakeAuthority ==
  /\ lastOp \in KeyKinds \cup MouseKinds => usingKeyboard
  /\ (lastOp = "step" /\ PollSaw) => ~usingKeyboard

\* C8, amended: every keyboard event (keydown, keyup) leaves usingKeyboard
\* true; every mouse event (mousedown, mouseup, mousemove) leaves
\* usingKeyboard as it was; an IM.step whose poll sees a watched axis beyond
\* the dead zone or a watched gamepad button active leaves usingKeyboard
\* false.
C8_KeysTakeMouseKeepsAuthority ==
  [][/\ lastOp' \in KeyKinds => usingKeyboard'
     /\ lastOp' \in MouseKinds => (usingKeyboard' = usingKeyboard)
     /\ (lastOp' = "step" /\ PollSaw') => ~usingKeyboard']_vars

\* C8, its case: a mouse event has been handled while the gamepad has
\* authority
C8_Witness ==
  /\ lastOp \in MouseKinds
  /\ ~usingKeyboard
  /\ pollAuth

---------------------------------------------------------------------------
(* SpecCtl: the registry operations on a control set that starts as the   *)
(* button "act" and the directional "move": save, restore, registrations, *)
(* unregistrations, the menu preset and callback assignments, in any      *)
(* order.                                                                 *)

CtlControls ==
  RegisterDirectional(RegisterButton(EmptyRegistry, "act", "k", 0),
                      "move", "w", "d", "s", "a", 0, 1)

InitCtl == InitWith(CtlControls, <<>>)

CtlButtonNames == {"act"}
CtlHandlers == {"h1", "undefined"}

SaveCtl == SaveOp
RestoreCtl == RestoreOp
RegisterButtonCtl == \E name \in CtlButtonNames : RegisterButtonOp(name, "k", 0)
UnregisterButtonCtl == \E name \in CtlButtonNames : UnregisterButtonOp(name)
RegisterDirectionalCtl == RegisterDirectionalOp("move", "w", "d", "s", "a", 0, 1)
UnregisterAllCtl == UnregisterAllOp
EnterMenuModeCtl == EnterMenuModeOp
SetOnPressedCtl ==
  \E name \in CtlButtonNames : \E handler \in CtlHandlers : SetOnPressedOp(name, handler)
SetOnReleasedCtl == \E name \in CtlButtonNames : SetOnReleasedOp(name, "h2")

GetDirectionalVecCtl == GetDirectionalVecOp("move")

NextCtl ==
  \/ GetDirectionalVecCtl
  \/ SaveCtl
  \/ RestoreCtl
  \/ RegisterButtonCtl
  \/ UnregisterButtonCtl
  \/ RegisterDirectionalCtl
  \/ UnregisterAllCtl
  \/ EnterMenuModeCtl
  \/ SetOnPressedCtl
  \/ SetOnReleasedCtl

SpecCtl == InitCtl /\ [][NextCtl]_vars

\* C10: right after a restore() that had a save to restore, the two Maps
\* bind the names they bound at the time of that save(), each to the very
\* object (the same identity) it was bound to then, whatever registrations,
\* unregistrations, menu presets and callback assignments came between; and
\* every saved button carries the callbacks last assigned to it, those
\* assigned between the save and the restore included.
C10_RestoreSameObjects ==
  (lastOp = "restore" /\ ret = "void") =>
    /\ buttons = snap.buttons
    /\ directionals = snap.directionals
    /\ \A n \in DOMAIN buttons :
         /\ bobj[buttons[n]].onPressed = snap.onPressed[buttons[n]]
         /\ bobj[buttons[n]].onReleased = snap.onReleased[buttons[n]]

\* C10, its case: a restore after an interval in which names were bound or
\* unbound and a saved button got a new onPressed
C10_Witness ==
  /\ lastOp = "restore"
  /\ ret = "void"
  /\ snap.rebound
  /\ "act" \in DOMAIN buttons
  /\ buttons["act"] \in snap.changed
  /\ bobj[buttons["act"]].onPressed = "h1"
  /\ "move" \in DOMAIN directionals

\* C11: a restore() that finds the slot empty leaves the button mapping, the
\* directional mapping and the slot as they were; after any restore() the
\* slot is empty (so a restore() right after a successful one finds it
\* empty and changes nothing).
C11_RestoreOnEmptySlot ==
  [][lastOp' = "restore" =>
       /\ ~savedControls'.defined
       /\ ~savedControls.defined =>
            /\ buttons' = buttons
            /\ directionals' = directionals
            /\ savedControls' = savedControls
            /\ ret' = RestoreLog]_vars

\* C11, its case: a restore() on an empty slot with controls registered
C11_Witness ==
  /\ lastOp = "restore"
  /\ ret = RestoreLog
  /\ DOMAIN buttons # {}
  /\ DOMAIN directionals # {}

\* C12: right after save() the slot holds the bindings of that moment,
\* whatever snapshot it held before; right after a restore() that had a
\* snapshot, the mappings are those of the most recent save() and the slot
\* is empty, so that no earlier snapshot is left to restore.
C12_LatestSaveWins ==
  /\ lastOp = "save" =>
       /\ savedControls.defined
       /\ savedControls.buttons = buttons
       /\ savedControls.directionals = directionals
  /\ (lastOp = "restore" /\ ret = "void") =>
       /\ buttons = snap.buttons
       /\ directionals = snap.directionals
       /\ savedControls = NoSavedControls

\* C12, its case: a restore() after a save() that overwrote a snapshot of
\* other bindings
C12_Witness ==
  /\ lastOp = "restore"
  /\ ret = "void"
  /\ snap.overwrote
  /\ DOMAIN buttons # {}

Named(n) == bobj[buttons[n]]

\* C13: right after enterMenuMode() the registered controls are exactly the
\* directional 'navigation' and the buttons 'enter', 'cancel' and
\* 'fullscreen'; 'enter' has the click key and gamepad index, 'cancel' the
\* cancel key and gamepad index, 'fullscreen' the fullscreen key and gamepad
\* index, and only 'fullscreen' has an onPressed other than noOp, the
\* display's fullscreen toggle.
C13_MenuPreset ==
  lastOp = "enterMenuMode" =>
    LET m == MenuNavigationInputs
    IN /\ DOMAIN directionals = {"navigation"}
       /\ DOMAIN buttons = {"enter", "cancel", "fullscreen"}
       /\ Named("enter").key = m.clickKey
       /\ Named("enter").gpButtonIndex = m.clickGP
       /\ Named("cancel").key = m.cancelKey
       /\ Named("cancel").gpButtonIndex = m.cancelGP
       /\ Named("fullscreen").key = m.fullscreenKey
       /\ Named("fullscreen").gpButtonIndex = m.fullscreenGP
       /\ Named("enter").onPressed = NoOp
       /\ Named("cancel").onPressed = NoOp
       /\ Named("fullscreen").onPressed = "toggleFullScreen"

\* the Input Manager's own state is as before the step
SameInputManager ==
  UNCHANGED <<buttons, directionals, bobj, dobj, usingKeyboard, savedControls,
              mouseFunctions>>

\* the step changed the given callback of button id to what the handler
\* stands for, and nothing else of the Input Manager
Installed(id, field, handler) ==
  LET h == IF handler = "undefined" THEN "noOp" ELSE handler
  IN /\ bobj' = [bobj EXCEPT ![id] =
                   IF field = "onPressed" THEN [@ EXCEPT !.onPressed = h]
                   ELSE [@ EXCEPT !.onReleased = h]]
     /\ UNCHANGED <<buttons, directionals, dobj, usingKeyboard, savedControls,
                    mouseFunctions>>

\* C22: setOnPressed(name, h) and setOnReleased(name, h) return true and
\* install h (the no-op when h is undefined) when a button is registered
\* under name, and return false and change nothing of the Input Manager when
\* none is; getDirectionalVec of a name no directional is registered under
\* returns undefined.
C22_SettersReportTheLookup ==
  [][/\ lastOp' = "setOnPressed" =>
          IF call'.name \in DOMAIN buttons
          THEN ret' = TRUE
               /\ Installed(buttons[call'.name], "onPressed", call'.handler)
          ELSE ret' = FALSE /\ SameInputManager
     /\ lastOp' = "setOnReleased" =>
          IF call'.name \in DOMAIN buttons
          THEN ret' = TRUE
               /\ Installed(buttons[call'.name], "onReleased", call'.handler)
          ELSE ret' = FALSE /\ SameInputManager
     /\ lastOp' = "getDirectionalVec" =>
          /\ SameInputManager
          /\ call'.name \notin DOMAIN directionals => ret' = "undefined"
          /\ call'.name \in DOMAIN directionals =>
               ret' = dobj[directionals[call'.name]].vec]_vars

\* setOnPressed found no button under the name, and so did getDirectionalVec
C22_Witness ==
  /\ lastOp = "setOnPressed"
  /\ call.name \notin DOMAIN buttons
  /\ ret = FALSE
  /\ DOMAIN directionals = {}

\* the direction the keys that are down press along each axis
PressedX ==
  (IF Move.rightButton.status.isDown THEN 1 ELSE 0)
  - (IF Move.leftButton.status.isDown THEN 1 ELSE 0)
PressedY ==
  (IF Move.downButton.status.isDown THEN 1 ELSE 0)
  - (IF Move.upButton.status.isDown THEN 1 ELSE 0)

\* magnitude 1, to the last thousandth
IsUnit(v) == Magnitude(v) \in {Scale - 1, Scale}

\* C24: whichever of the four keys of the directional are down, the vec the
\* key handlers set has magnitude at most 1: it is the zero vector when no
\* key or only opposing keys are down, and else a unit vector whose
\* components have the signs of the pressed directions (left -x, right +x,
\* up -y, down +y).
C24_KeyVecIsZeroOrUnit ==
  /\ ~MagnitudeExceedsOne(Move.vec)
  /\ (PressedX = 0 /\ PressedY = 0) => Move.vec = ZeroVec
  /\ (PressedX # 0 \/ PressedY # 0) =>
       /\ IsUnit(Move.vec)
       /\ Sgn(Move.vec[1]) = PressedX
       /\ Sgn(Move.vec[2]) = PressedY

\* left and up are down, right and down are up: a diagonal
C24_Witness ==
  /\ lastOp = "keydown"
  /\ PressedX = -1
  /\ PressedY = -1
  /\ Move.leftButton.status.isDown
  /\ ~Move.rightButton.status.isDown
  /\ Move.vec[1] < 0
  /\ Move.vec[2] < 0

\* C27: whenever the callback of the directional fires in an IM.step, at
\* least KeyDelay steps of continuous non-zero intent came before that step,
\* also when the directional has been idle in no step since it was
\* registered; it fires in no step that sees the vector at magnitude 0.
C27_NoFireBeforeKeyDelay ==
  (lastOp = "step" /\ dfired["move"] # NoLabel) =>
    /\ hold[directionals["move"]] >= 1
    /\ hold[directionals["move"]] - 1 >= KeyDelay

---------------------------------------------------------------------------
(* SpecStick: the directional "move" on the two axes of one gamepad, whose *)
(* readings range over the dead zone, its edge, and the full deflection.   *)

InitStick == InitWith(DirControls, <<PadSlot({})>>)

\* readings in thousandths: at the dead zone, just above it, in the middle,
\* and at the end of the travel
StickVals ==
  {-Scale, -(DeadZone + 10), -DeadZone, 0, DeadZone, DeadZone + 10,
   3 * DeadZone, Scale}

PadConnectStick == PadConnect(1)
PadAxisStick == \E ai \in {0, 1}, v \in StickVals : PadAxis(1, ai, v)
KeyDownStick == KeyDown("d")
KeyUpStick == KeyUp("d")
StepStick == IMStep(MaxHoldPoll)

NextStick ==
  \/ PadConnectStick
  \/ PadAxisStick
  \/ KeyDownStick
  \/ KeyUpStick
  \/ StepStick

SpecStick == InitStick /\ [][NextStick]_vars

\* the readings of the two axes the last poll saw
RawStick == <<gamepads[1].axes[0], gamepads[1].axes[1]>>

\* reading times sensitivity, in ten-thousandths, of the readings that are
\* outside the dead zone
Scaled(k) ==
  IF Abs(RawStick[k]) <= DeadZone THEN 0 ELSE RawStick[k] * StickSensitivity

ScaledExceedsOne ==
  Scaled(1) * Scaled(1) + Scaled(2) * Scaled(2) > (10 * Scale) * (10 * Scale)

\* C25: in a vec the gamepad poll assigned, a reading within the dead zone
\* gives component 0 and a reading outside it a non-zero component of the
\* sign of the reading; the component is the reading times the sensitivity
\* while that vector has magnitude at most 1, and else the vector is scaled
\* down as a whole to magnitude 1 (to the last thousandth).
C25_StickVecGuardedScaledClamped ==
  (lastOp = "step" /\ "move" \in vecSet) =>
    /\ Magnitude(Move.vec) <= Scale
    /\ \A k \in {1, 2} :
         /\ Abs(RawStick[k]) <= DeadZone => Move.vec[k] = 0
         /\ Abs(RawStick[k]) > DeadZone => Sgn(Move.vec[k]) = Sgn(RawStick[k])
         /\ ~ScaledExceedsOne => 10 * Move.vec[k] = Scaled(k)
    /\ ScaledExceedsOne =>
         /\ IsUnit(Move.vec)
         /\ Abs(Move.vec[1] * Scaled(2) - Move.vec[2] * Scaled(1))
              <= Abs(Scaled(1)) + Abs(Scaled(2))

\* a poll of one reading just above the dead zone and one at its edge
C25_Witness ==
  /\ lastOp = "step"
  /\ "move" \in vecSet
  /\ RawStick = <<DeadZone + 10, -DeadZone>>
  /\ Move.vec[1] > 0
  /\ Move.vec[2] = 0

\* a poll of a full deflection next to a reading just above the dead zone:
\* the vector is scaled down
C25_WitnessClamped ==
  /\ lastOp = "step"
  /\ "move" \in vecSet
  /\ RawStick = <<Scale, DeadZone + 10>>
  /\ Move.vec[1] < Scale
  /\ Move.vec[2] > 0

---------------------------------------------------------------------------
(* SpecGame: the Game Manager's loop: run() and setGameOver() are called, *)
(* with either argument, and the browser runs the timeouts.                *)

InitGame == InitWith(EmptyRegistry, <<>>)

RunGame == \E prev \in {0, 16} : RunOp(prev)
SetGameOverGame == \E b \in BOOLEAN : SetGameOverOp(b)
TimeoutGame == TimeoutOp

NextGame ==
  \/ RunGame
  \/ SetGameOverGame
  \/ TimeoutGame

SpecGame == InitGame /\ [][NextGame]_vars

\* C26: once gameOver is set it stays set, and a run() that finds it set
\* arms no continuation.
C26_GameOverIsOneWay ==
  [][game.gameOver =>
       /\ game'.gameOver
       /\ lastOp' = "run" => game'.armed = game.armed]_vars

\* C26, amended: a run() that finds gameOver set arms no continuation, and
\* gameOver goes back to false in no operation but setGameOver.
C26_NoArmingWhileGameOver ==
  [][game.gameOver =>
       /\ lastOp' = "run" => game'.armed = game.armed
       /\ ~game'.gameOver => lastOp' = "setGameOver"]_vars

\* a run() with gameOver set, after the timeout of an earlier run() is gone
C26_Witness ==
  /\ lastOp = "run"
  /\ game.gameOver
  /\ game.stepCount >= 2
  /\ game.armed = 0

---------------------------------------------------------------------------
(* SpecRereg: a button and a directional that carry callbacks are          *)
(* registered anew under their names, while the key and the gamepad button *)
(* of the button go down and up and the game steps.                        *)

ReregControls ==
  SetDirectionalFunction(
    RegisterDirectional(
      SetOnReleased(
        SetOnPressed(RegisterButton(EmptyRegistry, "act", "k", 0), "act", "h1"),
        "act", "h2"),
      "move", "w", "d", "s", "a", 0, 1),
    "move", "f1")

InitRereg == InitWith(ReregControls, <<PadSlot({0})>>)

KeyDownRereg == KeyDown("k")
KeyUpRereg == KeyUp("k")
PadConnectRereg == PadConnect(1)
PadButtonRereg == \E v \in {IdlePadButton, DownPadButton} : PadButton(1, 0, v)
StepRereg == IMStep(MaxHoldPoll)
RegisterButtonRereg == RegisterButtonOp("act", "k", 0)
RegisterDirectionalRereg == RegisterDirectionalOp("move", "w", "d", "s", "a", 0, 1)
SetOnPressedRereg == SetOnPressedOp("act", "h1")

NextRereg ==
  \/ KeyDownRereg
  \/ KeyUpRereg
  \/ PadConnectRereg
  \/ PadButtonRereg
  \/ StepRereg
  \/ RegisterButtonRereg
  \/ RegisterDirectionalRereg
  \/ SetOnPressedRereg

SpecRereg == InitRereg /\ [][NextRereg]_vars

AllFalse(status) ==
  /\ ~status.isDown
  /\ ~status.wasDown
  /\ ~status.isPressed
  /\ ~status.isReleased

\* the callbacks of button "act" the last IM.step invoked
Invoked ==
  {IF f[2] = "onPressed" THEN bobj[buttons["act"]].onPressed
   ELSE bobj[buttons["act"]].onReleased :
     f \in {g \in fired : g[1] = <<"button", "act", "">>}}

\* C23: registerButton and registerDirectional under a name that is
\* registered leave the same names registered and, under the name, a control
\* whose Status is all false and whose callbacks are the no-op; an IM.step
\* that comes next invokes no callback of the control that was replaced.
C23_RegisterReplaces ==
  [][/\ (lastOp' = "registerButton" /\ "act" \in DOMAIN buttons) =>
          /\ DOMAIN buttons' = DOMAIN buttons
          /\ DOMAIN directionals' = DOMAIN directionals
          /\ AllFalse(bobj'[buttons'["act"]].status)
          /\ bobj'[buttons'["act"]].onPressed = "noOp"
          /\ bobj'[buttons'["act"]].onReleased = "noOp"
     /\ (lastOp' = "registerDirectional" /\ "move" \in DOMAIN directionals) =>
          /\ DOMAIN directionals' = DOMAIN directionals
          /\ DOMAIN buttons' = DOMAIN buttons
          /\ dobj'[directionals'["move"]].fn = "noOp"
          /\ \A k \in SubButtons :
               AllFalse(dobj'[directionals'["move"]][k].status)
     /\ (lastOp = "registerButton" /\ lastOp' = "step") =>
          Invoked' \subseteq {"noOp"}
     /\ (lastOp = "registerDirectional" /\ lastOp' = "step") =>
          (dfired'["move"] # NoLabel => dobj'[directionals'["move"]].fn = "noOp")]_vars

\* the step after a registration over a button with callbacks, with the
\* gamepad button held: the press is dispatched to the new button
C23_Witness ==
  /\ lastOp = "step"
  /\ <<<<"button", "act", "">>, "onPressed">> \in fired
  /\ bobj[buttons["act"]].onPressed = "noOp"
  /\ dobj[directionals["move"]].fn = "noOp"

---------------------------------------------------------------------------
(* SpecBoot: the Input Manager from its construction on: startUp() any     *)
(* number of times, with the canvas in the document or not, and device     *)
(* events delivered in between.                                            *)

\* the state the constructor leaves
InitBoot ==
  /\ InitState(EmptyRegistry, <<>>, FALSE, NoListeners, NoBoot)
  /\ NoEditorYet

StartUpBoot == \E canvas \in BOOLEAN : StartUp(canvas)
DeliverBoot == \E ev \in DeviceEvents : Deliver(ev, "k")

NextBoot ==
  \/ StartUpBoot
  \/ DeliverBoot

SpecBoot == InitBoot /\ [][NextBoot]_vars

\* C14: once startUp() has been called, exactly one handler is attached for
\* each of keydown, keyup, mousedown, mouseup, mousemove, gamepadconnected
\* and gamepaddisconnected, at most one for the canvas's contextmenu, and a
\* device event that is delivered runs its handler at most once.
C14_OneListenerPerEvent ==
  boot.startUps >= 1 =>
    /\ \A i \in DOMAIN EventOrder : Cardinality(listeners.on[EventOrder[i]]) = 1
    /\ Cardinality(listeners.on["contextmenu"]) <= 1
    /\ lastOp \in DeviceEvents => boot.invoked <= 1

---------------------------------------------------------------------------
(* SpecDraw: the room editor after enter(), in a room that holds nothing:   *)
(* polygons are drawn by mouse events at two places of the canvas.         *)

\* the controls WorldRoomEditor.enter() sets on the registry r
EnterControls(r) ==
  LET r0 == SetOnPressed(r, "escape", "cancel")
      r1 == SetOnPressed(RegisterButton(r0, "select-mode", "m", NoIndex),
                         "select-mode", "setMode(select)")
      r2 == SetOnPressed(RegisterButton(r1, "barrier-mode", "b", NoIndex),
                         "barrier-mode", "setMode(drawBarrier)")
      r3 == SetOnPressed(RegisterButton(r2, "delete", "Delete", NoIndex),
                         "delete", "delete")
  IN SetOnPressed(RegisterButton(r3, "export", "x", NoIndex),
                  "export", "export")

EmptyRoom ==
  [roomDefined |-> TRUE, entities |-> <<>>, backgrounds |-> <<>>,
   boxes |-> EmptyMap, about |-> EmptyMap]

InitEntered(w, l) ==
  /\ InitState(EnterControls(EmptyRegistry), <<>>, TRUE,
               ResetListeners(NoListeners, TRUE), [NoBoot EXCEPT !.startUps = 1])
  /\ mouseFunctions = EditorMouseFunctions
  /\ editor = [f \in EditorFields |-> w[f]]
  /\ room = [f \in RoomFields |-> w[f]]
  /\ cornerUI = w.corner
  /\ elog = l
  /\ noContextMenu = TRUE

\* the editor, room and corner slots as one record
WorldOf(e, r, ui) ==
  [f \in EditorFields \cup RoomFields \cup {"corner"} |->
     IF f \in EditorFields THEN e[f]
     ELSE IF f \in RoomFields THEN r[f]
     ELSE ui]

InitDraw == InitEntered(WorldOf(NewEditor, EmptyRoom, EnteredCornerUI), NoLog)

Click(button, shiftKey, world, hit) ==
  [button |-> button, shiftKey |-> shiftKey, world |-> world, hit |-> hit]

MouseDownDraw ==
  \E button \in {0, 2}, shiftKey \in BOOLEAN, world \in WorldPoints :
    EditorMouseDown(Click(button, shiftKey, world, {}), MaxClicks)
MouseMoveDraw ==
  \E shiftKey \in BOOLEAN, world \in WorldPoints :
    EditorMouseMove([shiftKey |-> shiftKey, world |-> world])
MouseUpDraw ==
  \E world \in WorldPoints : EditorMouseUp([world |-> world])

NextDraw ==
  \/ MouseDownDraw
  \/ MouseMoveDraw
  \/ MouseUpDraw

SpecDraw == InitDraw /\ [][NextDraw]_vars

\* the left clicks on the polygon in progress began on an empty slot and
\* were these, by their shift keys
ClicksWere(shifts) ==
  /\ elog.fromEmpty
  /\ Len(elog.clicks) = Len(shifts)
  /\ \A i \in DOMAIN shifts : elog.clicks[i].shiftKey = shifts[i]

\* the completed list is what it was when the clicks began, and then one
\* polygon of the clicked points in click order
OneMoreOfTheClicks ==
  LET done == editor.completedPolygons
  IN /\ Len(done) = Len(elog.base) + 1
     /\ SubSeq(done, 1, Len(elog.base)) = elog.base
     /\ editor.polygons[done[Len(done)]] =
          [i \in DOMAIN elog.clicks |-> elog.clicks[i].vec]

\* the polygon of the clicked points is in progress, none was completed
StillInProgress ==
  /\ editor.completedPolygons = elog.base
  /\ editor.selectedPolygon # Undefined
  /\ editor.polygons[editor.selectedPolygon] =
       [i \in DOMAIN elog.clicks |-> elog.clicks[i].vec]

\* C15: in drawBarrier mode, three left clicks without shift and then one
\* shift-click, begun with no polygon in progress, add exactly one polygon to
\* the completed list; it has the four clicked points in click order, and no
\* polygon is in progress afterwards.
C15_FourthShiftClickCompletes ==
  (lastOp = "mousedown" /\ ClicksWere(<<FALSE, FALSE, FALSE, TRUE>>)) =>
    /\ OneMoreOfTheClicks
    /\ editor.selectedPolygon = Undefined

C15_Witness ==
  /\ lastOp = "mousedown"
  /\ ClicksWere(<<FALSE, FALSE, FALSE, TRUE>>)
  /\ elog.clicks[1].vec # elog.clicks[2].vec
  /\ Len(editor.completedPolygons) = 1

\* C16 as claimed: two left clicks without shift and then a shift-click,
\* begun with no polygon in progress, complete nothing: the completed list is
\* as before and the polygon stays in progress.
C16_ThirdShiftClickStays ==
  (lastOp = "mousedown" /\ ClicksWere(<<FALSE, FALSE, TRUE>>)) =>
    StillInProgress

\* C16 amended: one left click without shift and then a shift-click complete
\* nothing, the polygon of the two points stays in progress; two left clicks
\* without shift and then a shift-click complete the polygon of the three
\* clicked points.
C16_SecondShiftClickStays ==
  /\ (lastOp = "mousedown" /\ ClicksWere(<<FALSE, TRUE>>)) => StillInProgress
  /\ (lastOp = "mousedown" /\ ClicksWere(<<FALSE, FALSE, TRUE>>)) =>
       (OneMoreOfTheClicks /\ editor.selectedPolygon = Undefined)

C16_Witness ==
  /\ lastOp = "mousedown"
  /\ ClicksWere(<<FALSE, TRUE>>)
  /\ Len(editor.polygons[editor.selectedPolygon]) = 2

---------------------------------------------------------------------------
(* SpecEdit: the room editor after two triangles have been drawn, in a     *)
(* room of two entities and two backgrounds: mouse buttons at two places   *)
(* of the canvas, the delete command and the two mode commands.            *)

Entities == <<<<"FreeRoamEntity", 1>>, <<"FreeRoamEntity", 2>>>>
Backgrounds == <<<<"Background", 1>>, <<"Background", 2>>>>

\* the label and the altitude the room's entities were made with
Summary(id) ==
  IF id = Entities[1] THEN [label |-> "npc1", altitude |-> 2]
  ELSE [label |-> "npc2", altitude |-> 0]

EditRoom ==
  [roomDefined |-> TRUE, entities |-> Entities, backgrounds |-> Backgrounds,
   boxes |-> [id \in Range(Entities) \cup Range(Backgrounds) |->
                [topLeft |-> ZeroVec, width |-> 4, height |-> 4]],
   about |-> [id \in Range(Entities) |-> Summary(id)]]

\* the clicks that draw a triangle; the last is a shift-click
Triangle(a, b, c) ==
  <<Click(0, FALSE, a, {}), Click(0, FALSE, b, {}), Click(0, TRUE, c, {})>>

RECURSIVE Drawn(_, _)
Drawn(w, clicks) ==
  IF clicks = <<>> THEN w
  ELSE Drawn(MousedownHandler(w, Head(clicks)), Tail(clicks))

TwoTriangles ==
  SelectMouseupHandler(
    Drawn(WorldOf(NewEditor, EditRoom, EnteredCornerUI),
          Triangle(<<0, 0>>, <<2, 4>>, <<2, 4>>)
            \o Triangle(<<2, 4>>, <<0, 0>>, <<0, 0>>)),
    [world |-> <<0, 0>>])

InitEdit == InitEntered(TwoTriangles, NoLog)

\* what a click may hit: completed polygons, entities and backgrounds
Hits ==
  SUBSET (Range(editor.completedPolygons) \cup Range(room.entities)
            \cup Range(room.backgrounds))

MouseDownEdit ==
  \E button \in {0, 2}, shiftKey \in BOOLEAN, world \in WorldPoints, hit \in Hits :
    EditorMouseDown(Click(button, shiftKey, world, hit), MaxEditClicks)
MouseUpEdit ==
  \E world \in WorldPoints : EditorMouseUp([world |-> world])
SetModeEdit == \E newMode \in {"select", "drawBarrier"} : SetModeOp(newMode)

NextEdit ==
  \/ MouseDownEdit
  \/ MouseUpEdit
  \/ DeleteOp
  \/ SetModeEdit
  \/ ExportOp

SpecEdit == InitEdit /\ [][NextEdit]_vars

\* the last operation was a left click without shift in select mode
SelectClick ==
  /\ lastOp = "mousedown"
  /\ editor.mode = "select"
  /\ elog.last.button # 2
  /\ ~elog.last.shiftKey

\* x is selected and nothing else is
OnlySelected(field, x) ==
  /\ editor.selectedPolygon = IF field = "polygon" THEN x ELSE Undefined
  /\ editor.selectedEntity = IF field = "entity" THEN x ELSE Undefined
  /\ editor.selectedBgObj = IF field = "background" THEN x ELSE Undefined

\* C17: a left click without shift in select mode leaves selected exactly
\* the first object hit: the completed polygons in list order come first,
\* then the entities in list order, then the backgrounds from the last to the
\* first; every earlier selection is gone, and a click that hits nothing
\* leaves nothing selected.
C17_FirstHitSelected ==
  SelectClick =>
    LET hit == elog.last.hit
        ps == editor.completedPolygons
        es == room.entities
        gs == room.backgrounds
    IN /\ \A i \in DOMAIN ps :
            (ps[i] \in hit /\ \A j \in 1..(i - 1) : ps[j] \notin hit)
              => OnlySelected("polygon", ps[i])
       /\ \A i \in DOMAIN es :
            (/\ Range(ps) \cap hit = {}
             /\ es[i] \in hit
             /\ \A j \in 1..(i - 1) : es[j] \notin hit)
              => OnlySelected("entity", es[i])
       /\ \A i \in DOMAIN gs :
            (/\ (Range(ps) \cup Range(es)) \cap hit = {}
             /\ gs[i] \in hit
             /\ \A j \in (i + 1)..Len(gs) : gs[j] \notin hit)
              => OnlySelected("background", gs[i])
       /\ hit = {} => OnlySelected("none", Undefined)

\* a click that hit the second polygon, not the first, and an entity
C17_Witness ==
  /\ SelectClick
  /\ Len(editor.completedPolygons) = 2
  /\ editor.completedPolygons[1] \notin elog.last.hit
  /\ editor.completedPolygons[2] \in elog.last.hit
  /\ Range(room.entities) \cap elog.last.hit # {}
  /\ editor.selectedPolygon = editor.completedPolygons[2]

NothingSelected ==
  /\ editor.selectedPolygon = Undefined
  /\ editor.selectedBgObj = Undefined
  /\ editor.selectedEntity = Undefined

\* the list without its element x
Without(list, x) == SelectSeq(list, LAMBDA y : y # x)

\* C18 as claimed: after delete, in whatever state it ran, no polygon, no
\* background and no entity is selected.
C18_DeleteClearsSelection == lastOp = "delete" => NothingSelected

\* C18 amended: delete removes a selected completed polygon from the
\* completed list, else a selected background of the room from the
\* backgrounds, else a selected entity of the room from the entities, touches
\* no other list, and leaves nothing selected; with a polygon in progress in
\* the slot, or with nothing selected, it changes nothing.
C18_DeleteRemovesSelected ==
  [][lastOp' = "delete" =>
       LET p == editor.selectedPolygon
           g == editor.selectedBgObj
           e == editor.selectedEntity
           done == editor.completedPolygons
       IN IF p # Undefined
          THEN IF p \in Range(done)
               THEN /\ editor'.completedPolygons = Without(done, p)
                    /\ Len(editor'.completedPolygons) = Len(done) - 1
                    /\ room'.backgrounds = room.backgrounds
                    /\ room'.entities = room.entities
                    /\ NothingSelected'
               ELSE editor' = editor /\ room' = room
          ELSE IF g # Undefined
          THEN /\ room'.backgrounds = Without(room.backgrounds, g)
               /\ Len(room'.backgrounds) = Len(room.backgrounds) - 1
               /\ room'.entities = room.entities
               /\ editor'.completedPolygons = done
               /\ NothingSelected'
          ELSE IF e # Undefined
          THEN /\ room'.entities = Without(room.entities, e)
               /\ Len(room'.entities) = Len(room.entities) - 1
               /\ room'.backgrounds = room.backgrounds
               /\ editor'.completedPolygons = done
               /\ NothingSelected'
          ELSE editor' = editor /\ room' = room]_vars

\* delete has removed a completed polygon, then a background, then an entity
C18_Witness ==
  /\ lastOp = "delete"
  /\ Len(editor.completedPolygons) = 1
  /\ Len(room.backgrounds) = 1
  /\ Len(room.entities) = 1
  /\ NothingSelected

\* C20: setMode(m), in whatever state and for either m, leaves the mode m,
\* nothing selected and no polygon in progress, the overlays of mode m in the
\* top left and top right corners, and the completed polygons, the room's
\* entities and the room's backgrounds as they were.
C20_SetModeResets ==
  [][lastOp' = "setMode" =>
       /\ editor'.mode = ret'
       /\ NothingSelected'
       /\ cornerUI'["top left"] =
            IF ret' = "select" THEN "edit-menu-move" ELSE "edit-menu-barrier"
       /\ cornerUI'["top right"] =
            IF ret' = "select" THEN "edit-instructions-move"
            ELSE "edit-instructions-barrier"
       /\ editor'.completedPolygons = editor.completedPolygons
       /\ \A p \in Range(editor.completedPolygons) :
            editor'.polygons[p] = editor.polygons[p]
       /\ room' = room]_vars

\* setMode(select) has run on the two triangles
C20_Witness ==
  /\ lastOp = "setMode"
  /\ ret = "select"
  /\ editor.mode = "select"
  /\ cornerUI["top left"] = "edit-menu-move"
  /\ Len(editor.completedPolygons) = 2
  /\ NothingSelected

\* C21: the document exportString() returns has for barriers the completed
\* polygons in list order and nothing else (never the polygon in progress),
\* for bgObjects the room's backgrounds in order, and for entityDefinitions
\* the label, draw box and altitude of each entity of the room in order; the
\* export changes nothing of the editor, the room or the corner UI.
C21_ExportListsTheRoom ==
  [][lastOp' = "export" =>
       LET done == editor.completedPolygons
           gs == room.backgrounds
           es == room.entities
       IN /\ Len(ret'.barriers) = Len(done)
          /\ \A i \in DOMAIN done : ret'.barriers[i] = editor.polygons[done[i]]
          /\ Len(ret'.bgObjects) = Len(gs)
          /\ \A i \in DOMAIN gs : ret'.bgObjects[i].box = room.boxes[gs[i]]
          /\ Len(ret'.entityDefinitions) = Len(es)
          /\ \A i \in DOMAIN es :
               /\ DOMAIN ret'.entityDefinitions[i] = {"label", "drawBox", "altitude"}
               /\ ret'.entityDefinitions[i].label = room.about[es[i]].label
               /\ ret'.entityDefinitions[i].drawBox = room.boxes[es[i]]
               /\ ret'.entityDefinitions[i].altitude = room.about[es[i]].altitude
          /\ editor' = editor
          /\ room' = room
          /\ cornerUI' = cornerUI]_vars

\* an export made while a polygon was in progress
C21_Witness ==
  /\ lastOp = "export"
  /\ editor.selectedPolygon # Undefined
  /\ editor.selectedPolygon \notin Range(editor.completedPolygons)
  /\ Len(ret.barriers) = 2
  /\ Len(ret.entityDefinitions) = 2

---------------------------------------------------------------------------
(* SpecPan: the room editor after one triangle has been drawn, in a room   *)
(* of one entity and one background: mouse buttons and mouse moves at two  *)
(* places of the canvas, and the two mode commands.                        *)

PanRoom ==
  [roomDefined |-> TRUE, entities |-> <<Entities[1]>>,
   backgrounds |-> <<Backgrounds[1]>>,
   boxes |-> [id \in {Entities[1], Backgrounds[1]} |->
                [topLeft |-> ZeroVec, width |-> 4, height |-> 4]],
   about |-> [id \in {Entities[1]} |-> Summary(id)]]

OneTriangle ==
  SelectMouseupHandler(
    Drawn(WorldOf(NewEditor, PanRoom, EnteredCornerUI),
          Triangle(<<0, 0>>, <<2, 4>>, <<2, 4>>)),
    [world |-> <<0, 0>>])

InitPan == InitEntered(OneTriangle, NoLog)

MouseDownPan ==
  \E button \in {0, 2}, shiftKey \in BOOLEAN, world \in WorldPoints, hit \in Hits :
    EditorMouseDown(Click(button, shiftKey, world, hit), MaxEditClicks)
MouseMovePan ==
  \E shiftKey \in BOOLEAN, world \in WorldPoints :
    EditorMouseMove([shiftKey |-> shiftKey, world |-> world])
MouseUpPan ==
  \E world \in WorldPoints : EditorMouseUp([world |-> world])
SetModePan == \E newMode \in {"select", "drawBarrier"} : SetModeOp(newMode)

NextPan ==
  \/ MouseDownPan
  \/ MouseMovePan
  \/ MouseUpPan
  \/ SetModePan

SpecPan == InitPan /\ [][NextPan]_vars

\* C19: a mousedown of the right button, in either mode, sets dragging and
\* changes no selection, no polygon in progress and no completed polygon;
\* while dragging is set a mouse move takes the mouse delta from the camera
\* offset and changes nothing else.
C19_RightButtonPans ==
  [][/\ (lastOp' = "mousedown" /\ elog'.last.button = 2) =>
          /\ editor'.dragging
          /\ editor'.selectedPolygon = editor.selectedPolygon
          /\ editor'.selectedBgObj = editor.selectedBgObj
          /\ editor'.selectedEntity = editor.selectedEntity
          /\ editor'.completedPolygons = editor.completedPolygons
          /\ editor'.polygons = editor.polygons
          /\ editor'.mode = editor.mode
          /\ room' = room
     /\ (lastOp' = "mousemove" /\ editor.dragging) =>
          LET vec == VecAdd(elog'.last.world, editor.cameraOffset)
              delta == VecSubtract(vec, editor.mousePos)
          IN /\ editor' = [editor EXCEPT
                             !.cameraOffset = VecSubtract(@, delta)]
             /\ room' = room
             /\ cornerUI' = cornerUI]_vars

\* the camera has been panned under a held selection, which stayed in place
C19_Witness ==
  /\ lastOp = "mousemove"
  /\ editor.dragging
  /\ editor.cameraOffset # ZeroVec
  /\ editor.selectedEntity # Undefined
  /\ room.boxes[editor.selectedEntity].topLeft = ZeroVec

---------------------------------------------------------------------------
(* SpecOps: the editor, just entered, on a room of one entity and one      *)
(* background; mouse events in both modes, setMode, cancel and delete      *)
(* interleave freely.  All mouse events are at one place of the canvas.    *)

InitOps == InitEntered(WorldOf(NewEditor, PanRoom, EnteredCornerUI), NoLog)

MouseDownOps ==
  \E button \in {0, 2}, shiftKey \in BOOLEAN, hit \in Hits :
    EditorMouseDown(Click(button, shiftKey, ZeroVec, hit), MaxClicks)
MouseMoveOps ==
  \E shiftKey \in BOOLEAN :
    EditorMouseMove([shiftKey |-> shiftKey, world |-> ZeroVec])
MouseUpOps == EditorMouseUp([world |-> ZeroVec])
SetModeOps == \E newMode \in {"select", "drawBarrier"} : SetModeOp(newMode)
CancelOps == CancelOp
DeleteOps == DeleteOp

NextOps ==
  \/ MouseDownOps
  \/ MouseMoveOps
  \/ MouseUpOps
  \/ SetModeOps
  \/ CancelOps
  \/ DeleteOps

SpecOps == InitOps /\ [][NextOps]_vars

Completed == Range(editor.completedPolygons)

\* C28: of selectedPolygon, selectedBgObj and selectedEntity at most one is
\* defined, in every state the mouse events, setMode, cancel and delete
\* lead to.
C28_AtMostOneSelection ==
  Cardinality({f \in {"selectedPolygon", "selectedBgObj", "selectedEntity"} :
                 editor[f] # Undefined}) <= 1

\* a click in select mode that hit the entity and the background has
\* selected the entity, after a polygon was drawn
C28_Witness ==
  /\ lastOp = "mousedown"
  /\ editor.mode = "select"
  /\ editor.selectedEntity # Undefined
  /\ editor.completedPolygons # <<>>
  /\ Range(room.backgrounds) \cap elog.last.hit # {}

\* C29: every completed polygon has at least three points; the completed
\* list grows only in a left shift-click in drawBarrier mode, by the polygon
\* in progress, and shrinks only in a delete, by the selected polygon.
C29_CompletedGrowsAndShrinks ==
  [][/\ \A id \in Range(editor'.completedPolygons) :
          Len(editor'.polygons[id]) >= 3
     /\ Len(editor'.completedPolygons) > Len(editor.completedPolygons) =>
          /\ lastOp' = "mousedown"
          /\ editor.mode = "drawBarrier"
          /\ elog'.last.button # 2
          /\ elog'.last.shiftKey
          /\ \E id \in DOMAIN editor'.polygons :
               /\ id \notin Completed
               /\ editor'.completedPolygons =
                    Append(editor.completedPolygons, id)
     /\ Len(editor'.completedPolygons) < Len(editor.completedPolygons) =>
          /\ lastOp' = "delete"
          /\ editor.selectedPolygon \in Completed
          /\ editor'.completedPolygons =
               Without(editor.completedPolygons, editor.selectedPolygon)
          /\ Len(editor'.completedPolygons) =
               Len(editor.completedPolygons) - 1
     /\ Len(editor'.completedPolygons) = Len(editor.completedPolygons) =>
          editor'.completedPolygons = editor.completedPolygons]_vars

\* a polygon was drawn and completed, then selected and deleted
C29_Witness ==
  /\ lastOp = "delete"
  /\ editor.completedPolygons = <<>>
  /\ elog.drawn >= 3

\* C30: the polygon in the selection slot is one of the completed list in
\* select mode and none of it in drawBarrier mode.
C30_SlotMatchesMode ==
  editor.selectedPolygon # Undefined =>
    /\ editor.mode = "select" => editor.selectedPolygon \in Completed
    /\ editor.mode = "drawBarrier" => editor.selectedPolygon \notin Completed

\* a polygon in progress while another is completed
C30_Witness ==
  /\ lastOp = "mousedown"
  /\ editor.mode = "drawBarrier"
  /\ editor.selectedPolygon # Undefined
  /\ editor.completedPolygons # <<>>

\* a completed polygon selected
C30_WitnessSelect ==
  /\ lastOp = "mousedown"
  /\ editor.mode = "select"
  /\ editor.selectedPolygon \in Completed

---------------------------------------------------------------------------
(* SpecMenu: button "act" on key "k" carries an onPressed callback that    *)
(* saves the controls and replaces them (by the menu's, or by none).  The  *)
(* key goes down and up, the game steps, and restore() is called.  No      *)
(* gamepad is plugged in.                                                  *)

\* the body of a callback, on the registry: "openMenu" is
\* () => { IM.save(); IM.enterMenuMode(); }, "clearControls" is
\* () => { IM.save(); IM.unregisterAll(); }; any other callback leaves the
\* Input Manager alone
Call(r, handler) ==
  IF handler = "openMenu" THEN EnterMenuMode(Save(r))
  ELSE IF handler = "clearControls" THEN UnregisterAll(Save(r))
  ELSE r

\* the dispatch loop of IM.step over the array getAllButtons() returned
\* before the loop: the callbacks of todo run on the registry one after
\* another.  (The order of the array is the Map's; here at most one button
\* carries a callback that changes the registry.)
RECURSIVE RunCallbacks(_, _, _)
RunCallbacks(r, todo, handlerOf) ==
  IF todo = {} THEN r
  ELSE LET f == CHOOSE g \in todo : TRUE
       IN RunCallbacks(Call(r, handlerOf[f]), todo \ {f}, handlerOf)

\* InputManager.ageButtons() on a registry: getAllButtons() is called anew,
\* so the buttons aged are those the Map holds now
AgeRegistered(r) ==
  [r EXCEPT !.bobj = [id \in DOMAIN r.bobj |->
                        IF id \in Range(r.buttons) THEN AgeStatus(r.bobj[id])
                        ELSE r.bobj[id]]]

\* InputManager.step() with the callbacks it invokes carried out
IMStepCalling(cap) ==
  LET d1 == StepDirectionals(dobj)
      ps == GetGamepadInput(usingKeyboard, bobj, d1)
      firedNow == Dispatch(ps.b, ps.d)
      handlerOf == [f \in firedNow |->
                      IF f[2] = "onPressed"
                      THEN RefButton(f[1], ps.b, ps.d).onPressed
                      ELSE RefButton(f[1], ps.b, ps.d).onReleased]
      r0 == [Registry EXCEPT !.bobj = ps.b, !.dobj = ps.d]
      r1 == RunCallbacks(r0, firedNow, handlerOf)
      l == Live(AgeRegistered(r1))
      saved == \E f \in firedNow : handlerOf[f] \in {"openMenu", "clearControls"}
      auth == ~ps.uk /\ \E i \in DOMAIN gamepads : gamepads[i].connected
      nonzero(id) == ~MagnitudeIsZero(dobj[id].vec)
      old(h, id, made) == id \in DOMAIN h /\ id \notin made
  IN /\ \A id \in Range(directionals) : nonzero(id) => hold[id] < cap
     /\ usingKeyboard' = ps.uk
     /\ buttons' = l.buttons
     /\ directionals' = l.directionals
     /\ bobj' = l.bobj
     /\ dobj' = l.dobj
     /\ savedControls' = l.savedControls
     /\ fired' = firedNow
     /\ dfired' = [n \in DOMAIN directionals |->
                     DirectionalStep(dobj[directionals[n]]).label]
     /\ stepCalls' = ps.calls
     /\ vecSet' = ps.vset
     /\ pollAuth' = auth
     /\ polledRead' = TrackedRead
     /\ edgeSeen' = {}
     /\ prevDown' = [id \in DOMAIN l.bobj |->
                       IF id \in Range(l.buttons) THEN l.bobj[id].status.isDown
                       ELSE IF old(prevDown, id, l.madeB) THEN prevDown[id]
                       ELSE FALSE]
     /\ hold' = [id \in DOMAIN l.dobj |->
                   IF ~old(hold, id, l.madeD) THEN 0
                   ELSE IF id \in Range(directionals)
                   THEN (IF nonzero(id) THEN hold[id] + 1 ELSE 0)
                   ELSE hold[id]]
     /\ seenIdle' = [id \in DOMAIN l.dobj |->
                       IF ~old(seenIdle, id, l.madeD) THEN FALSE
                       ELSE IF id \in Range(directionals)
                       THEN seenIdle[id] \/ ~nonzero(id)
                       ELSE seenIdle[id]]
     /\ trk' = TrkStep(firedNow, ps.calls)
     /\ snap' = IF saved THEN [SnapAt(r0) EXCEPT !.rebound = TRUE] ELSE snap
     /\ KeepOthers
     /\ lastOp' = "step"
     /\ call' = NoCall
     /\ ret' = "void"
     /\ UNCHANGED <<mouseFunctions, gamepads, lastKey>>

MenuControls(handler) ==
  SetOnPressed(RegisterButton(EmptyRegistry, "act", "k", 0), "act", handler)

InitMenu ==
  \E handler \in {"openMenu", "clearControls"} :
    InitWith(MenuControls(handler), <<>>)

KeyDownMenu == KeyDown("k")
KeyUpMenu == KeyUp("k")
StepMenu == IMStepCalling(MaxHoldPoll)
RestoreMenu == RestoreOp

NextMenu ==
  \/ KeyDownMenu
  \/ KeyUpMenu
  \/ StepMenu
  \/ RestoreMenu

SpecMenu == InitMenu /\ [][NextMenu]_vars

\* C31: after a restore() that brought back the controls a callback of
\* IM.step had saved, no restored button has isPressed or isReleased set,
\* and the step that comes next does not invoke onPressed of "act" (no key
\* event lies between the restore and that step).
C31_NoEdgeAfterRestore ==
  [][(lastOp = "restore" /\ ret = "void") =>
       /\ \A n \in DOMAIN buttons :
            /\ ~bobj[buttons[n]].status.isPressed
            /\ ~bobj[buttons[n]].status.isReleased
       /\ lastOp' = "step" =>
            <<<<"button", "act", "">>, "onPressed">> \notin fired']_vars

---------------------------------------------------------------------------
(* SpecSwitch: button "act" on key "k" and gamepad button 0; one gamepad   *)
(* is plugged in and out, and its button 0 is never touched, so the key is *)
(* the only input that presses "act".                                      *)

InitSwitch == InitWith(KeyControls, <<PadSlot({0})>>)

KeyDownSwitch == KeyDown("k")
KeyUpSwitch == KeyUp("k")
PadConnectSwitch == PadConnect(1)
PadDisconnectSwitch == PadDisconnect(1)
StepSwitch == IMStep(MaxHoldPoll)

NextSwitch ==
  \/ KeyDownSwitch
  \/ KeyUpSwitch
  \/ PadConnectSwitch
  \/ PadDisconnectSwitch
  \/ StepSwitch

SpecSwitch == InitSwitch /\ [][NextSwitch]_vars

\* C32: an IM.step invokes onReleased of "act" only when the key, the one
\* input that pressed it, has gone up: never while the key is still held,
\* whichever of keyboard and gamepad has authority.
C32_ReleaseOnlyAfterKeyUp ==
  (lastOp = "step" /\ FiredReleased("act")) => ~trk.down

---------------------------------------------------------------------------
(* SpecEnter: a room editor made on a room of one entity and one           *)
(* background is entered and left, any number of times; while it is        *)
(* entered, the mouse and the callbacks of its buttons work on it.         *)

\* WorldRoomEditor.exit() on the registry
ExitControls(r) ==
  UnregisterButton(
    UnregisterButton(
      UnregisterButton(SetOnPressed(r, "delete", "undefined"), "select-mode"),
      "barrier-mode"),
    "export")

KeepDevicesOfEditor ==
  /\ KeepPoll
  /\ UNCHANGED <<usingKeyboard, gamepads, lastKey, trk, listeners, boot, game>>

\* WorldRoomEditor.enter()
EnterOp ==
  /\ SetWorld(SetMode([World EXCEPT
                         !.corner = SetCornerUI(@, "bottom left", UiElements[5])],
                      "drawBarrier"))
  /\ SetRegistry(EnterControls(Registry))
  /\ mouseFunctions' = EditorMouseFunctions
  /\ noContextMenu' = TRUE
  /\ snap' = SnapRebound
  /\ elog' = Interrupted(elog)
  /\ lastOp' = "enter"
  /\ call' = NoCall
  /\ ret' = "void"
  /\ KeepDevicesOfEditor

\* WorldRoomEditor.exit()
ExitOp ==
  /\ SetRegistry(ExitControls(Registry))
  /\ cornerUI' = SetCornerUI(SetCornerUI(SetCornerUI(cornerUI,
                    "top left", "undefined"), "top right", "undefined"),
                    "bottom left", "undefined")
  /\ mouseFunctions' = NoMouseFunctions
  /\ noContextMenu' = FALSE
  /\ snap' = SnapRebound
  /\ elog' = Interrupted(elog)
  /\ lastOp' = "exit"
  /\ call' = NoCall
  /\ ret' = "void"
  /\ UNCHANGED <<editor, room>>
  /\ KeepDevicesOfEditor

InitEnter ==
  /\ InitState(EmptyRegistry, <<>>, TRUE, ResetListeners(NoListeners, TRUE),
               [NoBoot EXCEPT !.startUps = 1])
  /\ mouseFunctions = NoMouseFunctions
  /\ editor = NewEditor
  /\ room = PanRoom
  /\ cornerUI = NoCornerUI
  /\ elog = NoLog
  /\ noContextMenu = FALSE

\* the button is registered and its onPressed is the callback
Carries(name, handler) ==
  name \in DOMAIN buttons /\ bobj[buttons[name]].onPressed = handler

EnterEnter == EnterOp
ExitEnter == ExitOp
MouseDownEnter ==
  \E button \in {0, 2}, shiftKey \in BOOLEAN, hit \in Hits :
    EditorMouseDown(Click(button, shiftKey, ZeroVec, hit), MaxClicks)
MouseUpEnter == EditorMouseUp([world |-> ZeroVec])
SetModeEnter ==
  \/ Carries("select-mode", "setMode(select)") /\ SetModeOp("select")
  \/ Carries("barrier-mode", "setMode(drawBarrier)") /\ SetModeOp("drawBarrier")
DeleteEnter == Carries("delete", "delete") /\ DeleteOp

NextEnter ==
  \/ EnterEnter
  \/ ExitEnter
  \/ MouseDownEnter
  \/ MouseUpEnter
  \/ SetModeEnter
  \/ DeleteEnter

SpecEnter == InitEnter /\ [][NextEnter]_vars

EnterButtons == {"select-mode", "barrier-mode", "delete", "export"}

\* C33: after exit() none of the buttons enter() registered is registered,
\* the three mouse callbacks are the no-op, and the context menu is not
\* suppressed.
C33_ExitUndoesEnter ==
  lastOp = "exit" =>
    /\ DOMAIN buttons \cap EnterButtons = {}
    /\ mouseFunctions = NoMouseFunctions
    /\ ~noContextMenu

====
